---- MODULE Spec2Model ----
(***************************************************************************)
(* Flocking simulation (notxt/flock): the per-frame pipeline               *)
(*   clear grid -> populate grid -> evaluate + integrate -> swap buffers   *)
(* with the kernels of client/dist/shader and the buffers of               *)
(* client/src/module/buffers.ts.                                           *)
(*                                                                         *)
(* Numbers.  The kernels compute in f32.  The model computes in fixed      *)
(* point: a scalar is an integer (a length in world units, or a            *)
(* dimensionless value in units of 1/ONE) or NaN, a division truncates     *)
(* toward zero, and sqrt is the integer square root.  NaN is produced      *)
(* where the kernel divides 0 by 0 (normalize of the zero vector) and      *)
(* propagates as in IEEE arithmetic; every comparison with NaN is false.   *)
(***************************************************************************)
EXTENDS Integers, Sequences, FiniteSets, TLC

(***************************************************************************)
(* Bounds of the model.                                                    *)
(***************************************************************************)
\* params.agentCount (100 in main.ts): the number of agents of the model
NumAgents == 3
\* MAX_AGENTS_PER_CELL (128 in buffers.ts), kept below NumAgents so that a
\* cell can overflow
MAX_AGENTS_PER_CELL == 2
\* the frames the model runs
MaxFrames == 2
\* @workgroup_size of the populate and force kernels (64): invocations per
\* workgroup
WorkgroupSize == 2
\* @workgroup_size of the grid clear kernel (32), chosen so that the last
\* workgroup has invocations beyond the counters
ClearWorkgroupSize == 4

(***************************************************************************)
(* Program constants.                                                      *)
(***************************************************************************)
\* 0xFFFFFFFF, the all-ones u32.  TLC's integers are signed 32-bit, so the
\* model writes the bit pattern as -1 and compares u32 values with U32Less.
EMPTY_CELL_MARKER == -1

\* u32 comparison a < b on values stored as signed integers
U32Less(a, b) ==
  IF a < 0 THEN (b < 0 /\ a < b) ELSE (b < 0 \/ a < b)

\* Math.floor in the place of Math.ceil
CeilTruncated(a, b) == a \div b

\* Math.ceil(a / b) for integers a >= 0, b > 0
Ceil(a, b) == (a + b - 1) \div b

\* calculateGridConfig(worldSize, neighborRadius)
calculateGridConfig(worldSize, neighborRadius) ==
  [ cellSize         |-> neighborRadius,
    gridWidth        |-> Ceil(worldSize[1], neighborRadius),
    gridHeight       |-> Ceil(worldSize[2], neighborRadius),
    maxAgentsPerCell |-> MAX_AGENTS_PER_CELL ]

\* the parameter record main() passes to createBufferSet, for a small canvas
simulationParams ==
  [ agentCount            |-> NumAgents,
    separationRadius      |-> 8,
    alignmentRadius       |-> 16,
    cohesionRadius        |-> 16,
    separationForce       |-> 3,
    alignmentForce        |-> 2,
    cohesionForce         |-> 2,
    maxSpeed              |-> 4,
    worldSize             |-> <<60, 40>>,
    neighborRadius        |-> 20,
    edgeAvoidanceDistance |-> 10,
    edgeAvoidanceForce    |-> 2 ]

\* createBufferSet: the complete SimulationParams with the grid parameters
bufferSetParams(inputParams) ==
  LET gridConfig == calculateGridConfig(inputParams.worldSize, inputParams.neighborRadius)
  IN  [ agentCount            |-> inputParams.agentCount,
        separationRadius      |-> inputParams.separationRadius,
        alignmentRadius       |-> inputParams.alignmentRadius,
        cohesionRadius        |-> inputParams.cohesionRadius,
        separationForce       |-> inputParams.separationForce,
        alignmentForce        |-> inputParams.alignmentForce,
        cohesionForce         |-> inputParams.cohesionForce,
        maxSpeed              |-> inputParams.maxSpeed,
        worldSize             |-> inputParams.worldSize,
        neighborRadius        |-> inputParams.neighborRadius,
        edgeAvoidanceDistance |-> inputParams.edgeAvoidanceDistance,
        edgeAvoidanceForce    |-> inputParams.edgeAvoidanceForce,
        gridCellSize          |-> gridConfig.cellSize,
        gridWidth             |-> gridConfig.gridWidth,
        gridHeight            |-> gridConfig.gridHeight,
        maxAgentsPerCell      |-> gridConfig.maxAgentsPerCell ]

(***************************************************************************)
(* State.                                                                  *)
(***************************************************************************)
VARIABLES
  phase,          \* the frame scheduler's state
  frameCount,     \* frames started so far
  currentBuffer,  \* main.ts: index of the compute bind group of this frame
  agentBuffers,   \* bufferSet.agentBuffers: the two physical agent buffers
  deltaTime,      \* the deltaTime of the uniform buffer
  gridData,       \* bufferSet.gridBuffer
  gridIndices,    \* bufferSet.gridIndicesBuffer
  clearPc,        \* grid clear kernel: per invocation, "pending" or "done"
  popPc,          \* populate kernel: per invocation, "start", "write", "done"
  popCell,        \* populate kernel: the invocation's cellIdx
  popSlot,        \* populate kernel: the invocation's slotIdx
  evalPc,         \* force kernel: per invocation, "pending" or "done"
  evalReads,      \* history: physical agent buffers the force kernel read this frame
  evalWrites,     \* history: physical agent buffers the force kernel wrote this frame
  slotWriters,    \* history: per gridData slot, the invocations that wrote it this frame
  prevWritten,    \* history: physical buffer the force kernel wrote in the frame before
  simParams,      \* bufferSet.params: the SimulationParams the uniform buffer holds
  probe,          \* the argument and the result of a function applied on its own
  uniformLog,     \* history: the records updateUniforms wrote in this frame
  evalUniforms,   \* history: the uniform records the force kernel read this frame
  renderRead,     \* history: physical agent buffer the last render pass read
  fps,            \* the FPS counter: its FPSState, its element's display style
  boot            \* main(): where it is, what it logged, whether a frame is requested

vars == << phase, frameCount, currentBuffer, agentBuffers, deltaTime, gridData,
           gridIndices, clearPc, popPc, popCell, popSlot, evalPc, evalReads,
           evalWrites, slotWriters, prevWritten, simParams, probe, uniformLog,
           evalUniforms, renderRead, fps, boot >>

\* bufferSet.params
params == simParams

\* updateUniforms(device, uniformBuffer, params, deltaTime): the record that
\* the one writeBuffer call puts into the uniform buffer
updateUniforms(p, dt) == [params |-> p, deltaTime |-> dt]

\* a kernel that reads the uniform written when the buffer set was created
UniformsInitial == [params |-> params, deltaTime |-> 1]

\* var<uniform> params: the record a kernel invocation reads
Uniforms == [params |-> params, deltaTime |-> deltaTime]

cellCount == params.gridWidth * params.gridHeight

Agents == 0 .. (params.agentCount - 1)
Cells == 0 .. (cellCount - 1)
Slots == 0 .. (cellCount * params.maxAgentsPerCell - 1)

(***************************************************************************)
(* f32 scalars and vec2<f32> in fixed point.                               *)
(***************************************************************************)
\* the f32 NaN: a value outside the range of every number of the model
NaN == 0 - 1000000000

\* 1.0 of a dimensionless fixed-point value (a component of a unit vector)
ONE == 8 * 8

IsNaN(a) == a = NaN

FAdd(a, b) == IF IsNaN(a) \/ IsNaN(b) THEN NaN ELSE a + b
FSub(a, b) == IF IsNaN(a) \/ IsNaN(b) THEN NaN ELSE a - b
FMul(a, b) == IF IsNaN(a) \/ IsNaN(b) THEN NaN ELSE a * b

\* a / b rounded toward zero, for b > 0
TruncDiv(a, b) == IF a >= 0 THEN a \div b ELSE 0 - ((0 - a) \div b)

\* a / b in f32: 0/0 and NaN operands give NaN (no kernel divides a non-zero
\* value by zero)
FDiv(a, b) ==
  IF IsNaN(a) \/ IsNaN(b) \/ b = 0 THEN NaN
  ELSE IF b > 0 THEN TruncDiv(a, b) ELSE TruncDiv(0 - a, 0 - b)

\* a < b and a > b in f32: false when an operand is NaN
FLess(a, b) == ~IsNaN(a) /\ ~IsNaN(b) /\ a < b
FGreater(a, b) == FLess(b, a)

RECURSIVE SqrtSearch(_, _, _)
SqrtSearch(n, lo, hi) ==
  IF lo >= hi THEN lo
  ELSE LET mid == (lo + hi + 1) \div 2
       IN  IF mid * mid <= n THEN SqrtSearch(n, mid, hi)
           ELSE SqrtSearch(n, lo, mid - 1)

\* floor(sqrt(n)) for 0 <= n
ISqrt(n) == SqrtSearch(n, 0, IF n < 46340 THEN n ELSE 46340)

Sign(a) == IF a < 0 THEN 0 - 1 ELSE IF a > 0 THEN 1 ELSE 0

Vec(x, y) == <<x, y>>
ZeroVec == Vec(0, 0)
NaNVec == Vec(NaN, NaN)
VecIsNaN(v) == IsNaN(v[1]) \/ IsNaN(v[2])

VAdd(a, b) == Vec(FAdd(a[1], b[1]), FAdd(a[2], b[2]))
VSub(a, b) == Vec(FSub(a[1], b[1]), FSub(a[2], b[2]))
VScale(a, k) == Vec(FMul(a[1], k), FMul(a[2], k))

\* dot(a, b)
Dot(a, b) == FAdd(FMul(a[1], b[1]), FMul(a[2], b[2]))

\* |x| * k / sqrt(n) rounded toward zero, computed exactly:
\* floor(sqrt(x^2 k^2 / n))
ScaledComponent(x, k, n) == Sign(x) * ISqrt((x * x * k * k) \div n)

\* normalize(v) * k.  normalize divides v by length(v): the zero vector gives
\* 0/0 = NaN in both components.
NormalizeTimes(v, k) ==
  IF VecIsNaN(v) \/ IsNaN(k) THEN NaNVec
  ELSE IF v = ZeroVec THEN NaNVec
  ELSE LET n == Dot(v, v)
       IN  Vec(ScaledComponent(v[1], k, n), ScaledComponent(v[2], k, n))

\* length(v) > m for m >= 0, decided on the squares
LengthGreater(v, m) ==
  ~VecIsNaN(v) /\ ~IsNaN(m) /\ Dot(v, v) > m * m

\* clamp(e, low, high) = min(max(e, low), high).  With e = NaN the result of
\* min and max is either operand, so the set of results the build can produce
\* is {low, high, NaN}; otherwise it is the one clamped value.
Clamp(e, low, high) ==
  IF IsNaN(e) THEN {low, high, NaN}
  ELSE {IF e < low THEN low ELSE IF e > high THEN high ELSE e}

(***************************************************************************)
(* Grid Indexer: worldToGrid and gridToIndex of grid_populate.wgsl and     *)
(* compute.wgsl (the two kernels hold the same text).                      *)
(***************************************************************************)
\* a conversion in which a negative value wraps around to a large u32, which
\* the clamp turns into the last cell
U32ClampedWrapping(e, limit) ==
  IF IsNaN(e) THEN 0 .. limit
  ELSE {IF e < 0 THEN limit ELSE IF e > limit THEN limit ELSE e}

\* u32(e): conversion rounds toward zero and saturates; of a NaN it is an
\* indeterminate u32, of which only the clamped value matters below, so the
\* results are given already clamped to 0 .. limit
U32Clamped(e, limit) ==
  IF IsNaN(e) THEN 0 .. limit
  ELSE {IF e < 0 THEN 0 ELSE IF e > limit THEN limit ELSE e}

\* worldToGrid(position): the grid positions the kernel can compute
worldToGrid(position) ==
  { Vec(gx, gy) :
      gx \in U32Clamped(FDiv(position[1], params.gridCellSize), params.gridWidth - 1),
      gy \in U32Clamped(FDiv(position[2], params.gridCellSize), params.gridHeight - 1) }

\* gridToIndex(gridPos)
gridToIndex(gridPos) == gridPos[2] * params.gridWidth + gridPos[1]

\* worldToGrid(position) of grid_populate.wgsl
populateWorldToGrid(position) ==
  { Vec(gx, gy) :
      gx \in U32Clamped(FDiv(position[1], params.gridCellSize), params.gridWidth - 1),
      gy \in U32Clamped(FDiv(position[2], params.gridCellSize), params.gridHeight - 1) }

\* gridToIndex(gridPos) of grid_populate.wgsl
populateGridToIndex(gridPos) == gridPos[2] * params.gridWidth + gridPos[1]

\* dispatchWorkgroups(Math.ceil(n / size)): the global invocation ids
Invocations(n, size) == 0 .. (Ceil(n, size) * size - 1)

AgentInvocations == Invocations(params.agentCount, WorkgroupSize)
ClearInvocations == Invocations(cellCount, ClearWorkgroupSize)

\* no physical buffer
NoBuffer == 0 - 1

(***************************************************************************)
(* createBufferSet and initializeAgents.                                   *)
(***************************************************************************)
\* Math.random() * worldSize for agent a: two of the positions it can give,
\* one in a cluster near the origin (agents 0..2 share a cell and are within
\* separationRadius of the next agent), one spread over the world (agent 0 on
\* the far corner)
InitPositionsOf(a) ==
  { Vec(5 + 6 * a, 5 + a * a),
    Vec((params.worldSize[1] - 19 * a) % (params.worldSize[1] + 1),
        (params.worldSize[2] - 20 * a) % (params.worldSize[2] + 1)) }

\* (Math.random() - 0.5) * maxSpeed for agent a: one of the velocities it can give
InitVelocityOf(a) == Vec(1 + (a % 2), (a % 3) - 1)

\* initializeAgents(params): the records one call can return
initializeAgents ==
  { [a \in Agents |-> [position |-> pos[a], velocity |-> InitVelocityOf(a)]] :
      pos \in { f \in [Agents -> UNION { InitPositionsOf(a) : a \in Agents }] :
                  \A a \in Agents : f[a] \in InitPositionsOf(a) } }

\* the grid buffers after createBufferSet
emptyGrid == [s \in Slots |-> EMPTY_CELL_MARKER]
emptyIndices == [c \in Cells |-> 0]

\* no function is applied on its own
NoProbe == [kind |-> "none"]

(***************************************************************************)
(* The page around the buffer set: main() and the FPS counter.             *)
(***************************************************************************)
\* createInitialFPSState(config)
createInitialFPSState ==
  [frameTimes |-> << >>, lastUpdateTime |-> 0, currentFPS |-> 0, isVisible |-> FALSE]

\* createFPSDisplay(): element.style.display = 'none'
createFPSDisplay == [display |-> "none"]

\* the FPS counter of a freshly loaded page, no key pressed yet
FpsCreated ==
  [state |-> createInitialFPSState, element |-> createFPSDisplay, presses |-> 0,
   keys |-> 0]

\* what console.log and console.error print, by their first argument
SUPPORT_ERROR == "WebGPU is only supported in Chrome 113+. Please use Chrome browser."
INIT_ERROR == "WebGPU initialization failed:"
INIT_SUCCESS == "WebGPU initialized successfully!"
SHADERS_ERROR == "Failed to load shaders:"
SHADERS_SUCCESS == "Shaders loaded successfully!"
PIPELINES_ERROR == "Failed to create pipelines:"
PIPELINES_SUCCESS == "Pipelines created successfully!"
SIMULATION_STARTED == "Flocking simulation started!"

\* console.log(text) and console.error(text, detail) as console entries
ConsoleLog(text) == [level |-> "log", text |-> text, detail |-> ""]
ConsoleError(text, detail) == [level |-> "error", text |-> text, detail |-> detail]

\* an environment in which every step of main succeeds
EnvOk ==
  [canvas |-> "ok", chrome |-> TRUE, gpu |-> "ok", adapter |-> "ok", device |-> "ok",
   context |-> "ok", configure |-> "ok", shaders |-> "ok", modules |-> "ok"]

\* main() after startSimulation(): requestAnimationFrame(frame) is pending
MainStarted ==
  [pc |-> "running", env |-> EnvOk,
   console |-> << ConsoleLog(INIT_SUCCESS), ConsoleLog(SHADERS_SUCCESS),
                  ConsoleLog(PIPELINES_SUCCESS), ConsoleLog(SIMULATION_STARTED) >>,
   frameRequested |-> TRUE]

PageLoaded == fps = FpsCreated /\ boot = MainStarted

\* createBufferSet(device, inputParams), with initializeAgents returning
\* initialAgentData: the state after construction (main.ts: currentBuffer = 0)
createBufferSet(inputParams, initialAgentData) ==
  /\ simParams = bufferSetParams(inputParams)
  /\ probe = NoProbe
  /\ phase = "IDLE"
  /\ frameCount = 0
  /\ currentBuffer = 0
  /\ agentBuffers = [b \in {0, 1} |-> initialAgentData]
  /\ deltaTime = 1
  /\ gridData = emptyGrid
  /\ gridIndices = emptyIndices
  /\ clearPc = [i \in ClearInvocations |-> "done"]
  /\ popPc = [i \in AgentInvocations |-> "done"]
  /\ popCell = [i \in AgentInvocations |-> 0]
  /\ popSlot = [i \in AgentInvocations |-> 0]
  /\ evalPc = [i \in AgentInvocations |-> "done"]
  /\ evalReads = {}
  /\ evalWrites = {}
  /\ slotWriters = [s \in Slots |-> {}]
  /\ prevWritten = NoBuffer
  /\ uniformLog = << >>
  /\ evalUniforms = {}
  /\ renderRead = NoBuffer

Init ==
  /\ simParams = bufferSetParams(simulationParams)
  /\ \E initialAgentData \in initializeAgents :
       createBufferSet(simulationParams, initialAgentData)
  /\ PageLoaded

(***************************************************************************)
(* Scenes: parameter records and agent placements that createBufferSet can *)
(* be given, each a placement Math.random() can produce or a test sets up. *)
(***************************************************************************)
\* one Agent record
Agent(px, py, vx, vy) == [position |-> Vec(px, py), velocity |-> Vec(vx, vy)]

\* the parameters of the two-agent separation scenario: separation only, the
\* other parameters as getDefaultSimulationParams gives them
scenarioParams ==
  [ agentCount            |-> 2,
    separationRadius      |-> 20,
    alignmentRadius       |-> 40,
    cohesionRadius        |-> 40,
    separationForce       |-> 1,
    alignmentForce        |-> 0,
    cohesionForce         |-> 0,
    maxSpeed              |-> 2,
    worldSize             |-> <<100, 50>>,
    neighborRadius        |-> 50,
    edgeAvoidanceDistance |-> 10,
    edgeAvoidanceForce    |-> 0 ]

\* the parameters of the model with three agents
sceneParams == [simulationParams EXCEPT !.agentCount = 3]

\* two agents 5 apart, at rest
TwoAtRest == (0 :> Agent(10, 10, 0, 0) @@ 1 :> Agent(15, 10, 0, 0))

\* two agents 5 apart, moving side by side
TwoAbreast == (0 :> Agent(10, 10, 0, 1) @@ 1 :> Agent(15, 10, 0, 1))

\* agent 0 between two neighbors at the same distance whose velocities cancel
CancellingNeighbors ==
  (0 :> Agent(30, 20, 0, 1) @@ 1 :> Agent(24, 20, 1, 0) @@ 2 :> Agent(36, 20, 0 - 1, 0))

\* agents 0 and 1 at the same position, in the corner the clamp puts them in
CoincidentAgents ==
  (0 :> Agent(0, 0, 0 - 1, 0 - 1) @@ 1 :> Agent(0, 0, 0 - 2, 0) @@ 2 :> Agent(41, 20, 2, 0))

Scenes ==
  { [inputParams |-> scenarioParams, initialAgentData |-> TwoAtRest],
    [inputParams |-> scenarioParams, initialAgentData |-> TwoAbreast],
    [inputParams |-> sceneParams, initialAgentData |-> CancellingNeighbors],
    [inputParams |-> sceneParams, initialAgentData |-> CoincidentAgents] }

ScenarioInit ==
  \E scene \in Scenes :
    /\ simParams = bufferSetParams(scene.inputParams)
    /\ createBufferSet(scene.inputParams, scene.initialAgentData)
    /\ PageLoaded

(***************************************************************************)
(* main.ts: the compute bind groups and the buffer swap.                   *)
(***************************************************************************)
\* a bind group 1 whose output is the buffer it reads
computeBindGroupsSameBuffer(i) ==
  IF i = 0 THEN [agentsIn |-> 0, agentsOut |-> 1]
           ELSE [agentsIn |-> 1, agentsOut |-> 1]

\* computeBindGroups[i]: binding 0 (agentsIn) and binding 1 (agentsOut)
computeBindGroups(i) ==
  IF i = 0 THEN [agentsIn |-> 0, agentsOut |-> 1]
           ELSE [agentsIn |-> 1, agentsOut |-> 0]

\* a frame function that leaves currentBuffer as it is
SwapBuffersKept(cb) == cb

\* currentBuffer = 1 - currentBuffer
SwapBuffers(cb) == 1 - cb

\* the physical buffers in the read and the write role this frame
ReadBuffer == computeBindGroups(currentBuffer).agentsIn
WriteBuffer == computeBindGroups(currentBuffer).agentsOut

\* render bind groups that bind the other agent buffer
renderBindGroupsCrossed(i) == 1 - i

\* renderBindGroups[i]: the physical agent buffer its binding 0 names
renderBindGroups(i) == i

(***************************************************************************)
(* Grid clear kernel: one invocation per counter.                          *)
(***************************************************************************)
\* a clear kernel that leaves the counter as it is
ClearedCounterKept(old) == old

\* gridIndices[idx] = 0u: the value stored over the old one
ClearedCounter(old) == 0

\* main(global_id) of the grid clear kernel
GridClearMain(idx) ==
  /\ phase = "CLEARING_GRID"
  /\ clearPc[idx] = "pending"
  /\ clearPc' = [clearPc EXCEPT ![idx] = "done"]
  /\ gridIndices' =
       IF idx >= cellCount THEN gridIndices
       ELSE [gridIndices EXCEPT ![idx] = ClearedCounter(gridIndices[idx])]
  /\ UNCHANGED << phase, frameCount, currentBuffer, agentBuffers, deltaTime, gridData,
                  popPc, popCell, popSlot, evalPc, evalReads, evalWrites,
                  slotWriters, prevWritten >>
  /\ UNCHANGED << simParams, probe, uniformLog, evalUniforms, renderRead, fps, boot >>

(***************************************************************************)
(* Grid populate kernel: per invocation, the atomicAdd and then the slot   *)
(* write are two steps, so that invocations interleave between them.       *)
(***************************************************************************)
\* an atomicLoad in the place of the atomicAdd: the counter is not incremented
AtomicAddLost(old) == old

\* a counter that stops at the capacity: a dropped insert is not counted
AtomicAddSaturating(old) == IF old < params.maxAgentsPerCell THEN old + 1 ELSE old

\* atomicAdd(&gridIndices[cellIdx], 1u): the value stored (the old value is
\* what the call returns)
AtomicAddStored(old) == old + 1

\* a capacity test that is off by one: the last slot of a cell is never used
HasSpaceOffByOne(slotIdx) == U32Less(slotIdx + 1, params.maxAgentsPerCell)

\* no capacity test
HasSpaceAlways(slotIdx) == TRUE

\* if (slotIdx < params.maxAgentsPerCell)
HasSpace(slotIdx) == U32Less(slotIdx, params.maxAgentsPerCell)

\* a slot index that leaves out the cell's stride
GridDataIdxUnscaled(cellIdx, slotIdx) == cellIdx + slotIdx

\* cellIdx * params.maxAgentsPerCell + slotIdx
GridDataIdx(cellIdx, slotIdx) == cellIdx * params.maxAgentsPerCell + slotIdx

\* main: from the entry to the atomicAdd
PopulateFetch(agentIdx) ==
  /\ phase = "POPULATING_GRID"
  /\ popPc[agentIdx] = "start"
  /\ IF ~U32Less(agentIdx, params.agentCount)
     THEN /\ popPc' = [popPc EXCEPT ![agentIdx] = "done"]
          /\ UNCHANGED << gridIndices, popCell, popSlot >>
     ELSE \E gridPos \in populateWorldToGrid(agentBuffers[ReadBuffer][agentIdx].position) :
            LET cellIdx == populateGridToIndex(gridPos)
            IN  /\ popCell' = [popCell EXCEPT ![agentIdx] = cellIdx]
                /\ popSlot' = [popSlot EXCEPT ![agentIdx] = gridIndices[cellIdx]]
                /\ gridIndices' =
                     [gridIndices EXCEPT ![cellIdx] = AtomicAddStored(gridIndices[cellIdx])]
                /\ popPc' = [popPc EXCEPT ![agentIdx] = "write"]
  /\ UNCHANGED << phase, frameCount, currentBuffer, agentBuffers, deltaTime, gridData,
                  clearPc, evalPc, evalReads, evalWrites, slotWriters, prevWritten >>
  /\ UNCHANGED << simParams, probe, uniformLog, evalUniforms, renderRead, fps, boot >>

\* main: the guarded slot write
PopulateWrite(agentIdx) ==
  /\ phase = "POPULATING_GRID"
  /\ popPc[agentIdx] = "write"
  /\ popPc' = [popPc EXCEPT ![agentIdx] = "done"]
  /\ LET gridDataIdx == GridDataIdx(popCell[agentIdx], popSlot[agentIdx])
     IN  IF HasSpace(popSlot[agentIdx]) /\ gridDataIdx \in Slots
         THEN /\ gridData' = [gridData EXCEPT ![gridDataIdx] = agentIdx]
              /\ slotWriters' =
                   [slotWriters EXCEPT ![gridDataIdx] = @ \cup {agentIdx}]
         ELSE UNCHANGED << gridData, slotWriters >>
  /\ UNCHANGED << phase, frameCount, currentBuffer, agentBuffers, deltaTime,
                  gridIndices, clearPc, popCell, popSlot, evalPc, evalReads,
                  evalWrites, prevWritten >>
  /\ UNCHANGED << simParams, probe, uniformLog, evalUniforms, renderRead, fps, boot >>

(***************************************************************************)
(* Force kernel (compute.wgsl, the grid kernel with edge avoidance): the   *)
(* 3x3 scan.                                                               *)
(***************************************************************************)
\* for dy in -1..1, for dx in -1..1: the offsets <<dx, dy>> in loop order
NeighborOffsets ==
  << Vec(0 - 1, 0 - 1), Vec(0, 0 - 1), Vec(1, 0 - 1),
     Vec(0 - 1, 0),     Vec(0, 0),     Vec(1, 0),
     Vec(0 - 1, 1),     Vec(0, 1),     Vec(1, 1) >>

\* a bounds test that is off by one: column 0 and row 0 are skipped
InGridOffByOne(neighborX, neighborY) ==
  ~(neighborX <= 0 \/ neighborX >= params.gridWidth \/
    neighborY <= 0 \/ neighborY >= params.gridHeight)

\* the negation of: neighborX < 0 || neighborX >= gridWidth ||
\*                  neighborY < 0 || neighborY >= gridHeight
InGrid(neighborX, neighborY) ==
  ~(neighborX < 0 \/ neighborX >= params.gridWidth \/
    neighborY < 0 \/ neighborY >= params.gridHeight)

\* min(a, b) on u32
U32Min(a, b) == IF U32Less(a, b) THEN a ELSE b

\* the gridData indices the inner loop reads in cell neighborCellIdx:
\* i = 0 .. min(neighborCount, maxAgentsPerCell) - 1
CellSlots(neighborCellIdx) ==
  LET neighborCount == gridIndices[neighborCellIdx]
  IN  [ k \in 1 .. U32Min(neighborCount, params.maxAgentsPerCell) |->
          neighborCellIdx * params.maxAgentsPerCell + (k - 1) ]

RECURSIVE ScanFrom(_, _)
\* the gridData indices the scan around agentGridPos reads, in loop order,
\* from the k-th offset on
ScanFrom(agentGridPos, k) ==
  IF k > Len(NeighborOffsets) THEN << >>
  ELSE LET neighborX == agentGridPos[1] + NeighborOffsets[k][1]
           neighborY == agentGridPos[2] + NeighborOffsets[k][2]
       IN  (IF InGrid(neighborX, neighborY)
            THEN CellSlots(gridToIndex(Vec(neighborX, neighborY)))
            ELSE << >>) \o ScanFrom(agentGridPos, k + 1)

ScanSlots(agentGridPos) == ScanFrom(agentGridPos, 1)

\* a skip test without the comparison with agentCount
IsNeighborCandidateUnbounded(idx, neighborIdx) ==
  ~(neighborIdx = idx \/ neighborIdx = EMPTY_CELL_MARKER)

\* the negation of: neighborIdx == idx || neighborIdx == EMPTY_CELL_MARKER ||
\*                  neighborIdx >= params.agentCount
IsNeighborCandidate(idx, neighborIdx) ==
  ~(neighborIdx = idx \/ neighborIdx = EMPTY_CELL_MARKER \/
    ~U32Less(neighborIdx, params.agentCount))

\* the agent indices the scan reads from agentsIn, in loop order
ScanNeighbors(idx, agentGridPos) ==
  LET slots == ScanSlots(agentGridPos)
      read  == [k \in 1 .. Len(slots) |-> gridData[slots[k]]]
      Keep(neighborIdx) == IsNeighborCandidate(idx, neighborIdx)
  IN  SelectSeq(read, Keep)

\* distSq < radius * radius
WithinRadius(distSq, radius) == FLess(distSq, FMul(radius, radius))

\* distSq of two agent records
DistSq(agent, other) ==
  LET diff == VSub(agent.position, other.position) IN Dot(diff, diff)

\* the three tests of the loop body
InSeparation(agent, other) ==
  WithinRadius(DistSq(agent, other), params.separationRadius)
    /\ FGreater(DistSq(agent, other), 0)
InAlignment(agent, other) == WithinRadius(DistSq(agent, other), params.alignmentRadius)
InCohesion(agent, other) == WithinRadius(DistSq(agent, other), params.cohesionRadius)

ZeroSums ==
  [ separation |-> ZeroVec, alignment |-> ZeroVec, cohesion |-> ZeroVec,
    separationCount |-> 0, alignmentCount |-> 0, cohesionCount |-> 0 ]

\* one pass of the loop body: the sums after neighbor `other`
Accumulate(sums, agent, other) ==
  LET diff == VSub(agent.position, other.position)
      s1 == IF InSeparation(agent, other)
            THEN [sums EXCEPT !.separation = VAdd(@, NormalizeTimes(diff, ONE)),
                              !.separationCount = @ + 1]
            ELSE sums
      s2 == IF InAlignment(agent, other)
            THEN [s1 EXCEPT !.alignment = VAdd(@, other.velocity),
                            !.alignmentCount = @ + 1]
            ELSE s1
  IN  IF InCohesion(agent, other)
      THEN [s2 EXCEPT !.cohesion = VAdd(@, other.position),
                      !.cohesionCount = @ + 1]
      ELSE s2

RECURSIVE AccumulateFrom(_, _, _, _, _)
AccumulateFrom(sums, agent, agentsIn, neighbors, k) ==
  IF k > Len(neighbors) THEN sums
  ELSE AccumulateFrom(Accumulate(sums, agent, agentsIn[neighbors[k]]),
                      agent, agentsIn, neighbors, k + 1)

\* the sums of the 3x3 scan of agent idx whose grid cell is agentGridPos
GridSums(idx, agentsIn, agentGridPos) ==
  AccumulateFrom(ZeroSums, agentsIn[idx], agentsIn, ScanNeighbors(idx, agentGridPos), 1)

(***************************************************************************)
(* Force kernel: forces, integration, output.                              *)
(***************************************************************************)
\* normalize(separation / f32(separationCount)) * separationForce, and the
\* same for alignment.  Dividing by the count changes no direction, so the
\* model normalizes the sum itself.
SeparationTerm(sums) ==
  IF sums.separationCount > 0
  THEN NormalizeTimes(sums.separation, params.separationForce) ELSE ZeroVec

\* the alignment force without the test of the count
AlignmentTermUnguarded(sums) == NormalizeTimes(sums.alignment, params.alignmentForce)

AlignmentTerm(sums) ==
  IF sums.alignmentCount > 0
  THEN NormalizeTimes(sums.alignment, params.alignmentForce) ELSE ZeroVec

\* cohesion = cohesion / f32(cohesionCount) - agent.position, normalized: the
\* direction of cohesion - cohesionCount * agent.position
CohesionTerm(sums, agent) ==
  IF sums.cohesionCount > 0
  THEN NormalizeTimes(VSub(sums.cohesion, VScale(agent.position, sums.cohesionCount)),
                      params.cohesionForce)
  ELSE ZeroVec

\* (edgeAvoidanceDistance - distance) / edgeAvoidanceDistance * edgeAvoidanceForce
EdgePush(distance) ==
  FDiv(FMul(FSub(params.edgeAvoidanceDistance, distance), params.edgeAvoidanceForce),
       params.edgeAvoidanceDistance)

\* the edge force on one axis: position p, world extent w
EdgeAxis(p, w) ==
  LET low  == IF FLess(p, params.edgeAvoidanceDistance) THEN EdgePush(p) ELSE 0
      high == IF FGreater(p, FSub(w, params.edgeAvoidanceDistance))
              THEN EdgePush(FSub(w, p)) ELSE 0
  IN  FSub(low, high)

EdgeForce(agent) ==
  Vec(EdgeAxis(agent.position[1], params.worldSize[1]),
      EdgeAxis(agent.position[2], params.worldSize[2]))

\* acceleration = separation + alignment + cohesion + edgeForce
Acceleration(sums, agent) ==
  VAdd(VAdd(VAdd(SeparationTerm(sums), AlignmentTerm(sums)), CohesionTerm(sums, agent)),
       EdgeForce(agent))

\* the speed limit: if (speed > maxSpeed) velocity = normalize(velocity) * maxSpeed
LimitSpeed(velocity) ==
  IF LengthGreater(velocity, params.maxSpeed)
  THEN NormalizeTimes(velocity, params.maxSpeed) ELSE velocity

\* the records the kernel can write for agent idx: velocity, then position
\* clamped into the world
Integrate(sums, agent, dt) ==
  LET velocity == LimitSpeed(VAdd(agent.velocity, VScale(Acceleration(sums, agent), dt)))
      position == VAdd(agent.position, VScale(velocity, dt))
  IN  { [position |-> Vec(px, py), velocity |-> velocity] :
          px \in Clamp(position[1], 0, params.worldSize[1]),
          py \in Clamp(position[2], 0, params.worldSize[2]) }

\* main(global_id) of the force kernel
ForceMain(idx) ==
  /\ phase = "EVALUATING_AND_INTEGRATING"
  /\ evalPc[idx] = "pending"
  /\ evalPc' = [evalPc EXCEPT ![idx] = "done"]
  /\ IF ~U32Less(idx, params.agentCount)
     THEN UNCHANGED << agentBuffers, evalReads, evalWrites, evalUniforms >>
     ELSE LET bindGroup == computeBindGroups(currentBuffer)
              agentsIn  == agentBuffers[bindGroup.agentsIn]
              uniforms  == Uniforms
          IN  /\ \E agentGridPos \in worldToGrid(agentsIn[idx].position) :
                   \E out \in Integrate(GridSums(idx, agentsIn, agentGridPos),
                                        agentsIn[idx], uniforms.deltaTime) :
                     agentBuffers' =
                       [agentBuffers EXCEPT ![bindGroup.agentsOut][idx] = out]
              /\ evalReads' = evalReads \cup {bindGroup.agentsIn}
              /\ evalWrites' = evalWrites \cup {bindGroup.agentsOut}
              /\ evalUniforms' = evalUniforms \cup {uniforms}
  /\ UNCHANGED << phase, frameCount, currentBuffer, deltaTime, gridData, gridIndices,
                  clearPc, popPc, popCell, popSlot, slotWriters, prevWritten >>
  /\ UNCHANGED << simParams, probe, uniformLog, renderRead, fps, boot >>

(***************************************************************************)
(* Frame scheduler.  The frame function of main.ts records the compute     *)
(* pass, swaps currentBuffer and schedules the next frame; the grid clear  *)
(* and populate passes and the order of the passes are those of the        *)
(* scheduler's state machine IDLE -> CLEARING_GRID -> POPULATING_GRID ->   *)
(* EVALUATING_AND_INTEGRATING -> SWAPPED -> IDLE.                          *)
(***************************************************************************)
\* deltaTimeMs / 16.67 for the frame intervals of the model: a frame at the
\* 60 fps baseline and a frame that took twice as long
DeltaTimes == {1, 2}

\* a pass whose end is never seen
AllDoneNever(pc) == FALSE

\* every invocation of a pass has run
AllDone(pc) == \A i \in DOMAIN pc : pc[i] = "done"

\* frame(currentTime): deltaTime, updateUniforms, and the first pass begins
StartFrame ==
  /\ boot.frameRequested
  /\ phase = "IDLE"
  /\ frameCount < MaxFrames
  /\ frameCount' = frameCount + 1
  /\ \E dt \in DeltaTimes :
       LET written == updateUniforms(simParams, dt)
       IN  /\ deltaTime' = written.deltaTime
           /\ uniformLog' = << written >>
  /\ phase' = "CLEARING_GRID"
  /\ clearPc' = [i \in ClearInvocations |-> "pending"]
  /\ evalReads' = {}
  /\ evalWrites' = {}
  /\ evalUniforms' = {}
  /\ slotWriters' = [s \in Slots |-> {}]
  /\ UNCHANGED << currentBuffer, agentBuffers, gridData, gridIndices, popPc, popCell,
                  popSlot, evalPc, prevWritten >>
  /\ UNCHANGED << simParams, probe, renderRead, fps, boot >>

\* the barrier between the clear pass and the populate pass
ClearBarrier == AllDone(clearPc)

StartPopulate ==
  /\ phase = "CLEARING_GRID"
  /\ ClearBarrier
  /\ phase' = "POPULATING_GRID"
  /\ popPc' = [i \in AgentInvocations |-> "start"]
  /\ UNCHANGED << frameCount, currentBuffer, agentBuffers, deltaTime, gridData,
                  gridIndices, clearPc, popCell, popSlot, evalPc, evalReads,
                  evalWrites, slotWriters, prevWritten >>
  /\ UNCHANGED << simParams, probe, uniformLog, evalUniforms, renderRead, fps, boot >>

\* no barrier: the compute pass begins while inserts are outstanding
PopulateBarrierMissing == TRUE

\* the barrier between the populate pass and the compute pass
PopulateBarrier == AllDone(popPc)

StartEvaluate ==
  /\ phase = "POPULATING_GRID"
  /\ PopulateBarrier
  /\ phase' = "EVALUATING_AND_INTEGRATING"
  /\ evalPc' = [i \in AgentInvocations |-> "pending"]
  /\ popCell' = [i \in AgentInvocations |-> 0]
  /\ popSlot' = [i \in AgentInvocations |-> 0]
  /\ UNCHANGED << frameCount, currentBuffer, agentBuffers, deltaTime, gridData,
                  gridIndices, clearPc, popPc, evalReads, evalWrites, slotWriters,
                  prevWritten >>
  /\ UNCHANGED << simParams, probe, uniformLog, evalUniforms, renderRead, fps, boot >>

\* computePass.end(); currentBuffer = 1 - currentBuffer
Swap ==
  /\ phase = "EVALUATING_AND_INTEGRATING"
  /\ AllDone(evalPc)
  /\ phase' = "SWAPPED"
  /\ prevWritten' = WriteBuffer
  /\ currentBuffer' = SwapBuffers(currentBuffer)
  /\ UNCHANGED << frameCount, agentBuffers, deltaTime, gridData, gridIndices, clearPc,
                  popPc, popCell, popSlot, evalPc, evalReads, evalWrites, slotWriters >>
  /\ UNCHANGED << simParams, probe, uniformLog, evalUniforms, renderRead, fps, boot >>

\* the render pass, queue.submit and requestAnimationFrame(frame)
EndFrame ==
  /\ phase = "SWAPPED"
  /\ phase' = "IDLE"
  /\ renderRead' = renderBindGroups(currentBuffer)
  /\ UNCHANGED << frameCount, currentBuffer, agentBuffers, deltaTime, gridData,
                  gridIndices, clearPc, popPc, popCell, popSlot, evalPc, evalReads,
                  evalWrites, slotWriters, prevWritten >>
  /\ UNCHANGED << simParams, probe, uniformLog, evalUniforms, fps, boot >>

Next ==
  \/ StartFrame
  \/ \E idx \in ClearInvocations : GridClearMain(idx)
  \/ StartPopulate
  \/ \E agentIdx \in AgentInvocations : PopulateFetch(agentIdx)
  \/ \E agentIdx \in AgentInvocations : PopulateWrite(agentIdx)
  \/ StartEvaluate
  \/ \E idx \in AgentInvocations : ForceMain(idx)
  \/ Swap
  \/ EndFrame

Spec == Init /\ [][Next]_vars

\* the first frame after createBufferSet
StartFirstFrame == frameCount = 0 /\ StartFrame

ScenarioNext ==
  \/ StartFirstFrame
  \/ \E idx \in ClearInvocations : GridClearMain(idx)
  \/ StartPopulate
  \/ \E agentIdx \in AgentInvocations : PopulateFetch(agentIdx)
  \/ \E agentIdx \in AgentInvocations : PopulateWrite(agentIdx)
  \/ StartEvaluate
  \/ \E idx \in AgentInvocations : ForceMain(idx)
  \/ Swap
  \/ EndFrame

\* the frame loop started on a scene, for one frame
ScenarioSpec == ScenarioInit /\ [][ScenarioNext]_vars

(***************************************************************************)
(* The grid as the force kernel reads it, and the brute-force scan.        *)
(***************************************************************************)
EVALUATING == phase = "EVALUATING_AND_INTEGRATING"
POPULATING == phase = "POPULATING_GRID"

\* agentsIn of this frame's bind group
ReadAgents == agentBuffers[ReadBuffer]

\* gridToIndex(worldToGrid(agent.position)) of agent a: the cells the kernels
\* can compute for it (one cell unless the position is NaN)
HomeCells(a) == { gridToIndex(gridPos) : gridPos \in worldToGrid(ReadAgents[a].position) }

\* min(neighborCount, params.maxAgentsPerCell) of cell c
ValidCount(c) == U32Min(gridIndices[c], params.maxAgentsPerCell)

\* the gridData indices of cell c below and from ValidCount(c) on
ValidSlots(c) == { GridDataIdx(c, k) : k \in 0 .. (ValidCount(c) - 1) }
UnusedSlots(c) ==
  { GridDataIdx(c, k) : k \in ValidCount(c) .. (params.maxAgentsPerCell - 1) }

\* the agent indices in the valid slots of cell c
Stored(c) == { gridData[s] : s \in ValidSlots(c) }

\* the counter of cell c exceeds the capacity
Overflowed(c) == U32Less(params.maxAgentsPerCell, gridIndices[c])

\* invocation a of the populate kernel has done its atomicAdd in this pass
Inserted(a) == POPULATING /\ popPc[a] \in {"write", "done"}

Range(seq) == { seq[k] : k \in 1 .. Len(seq) }
NoDuplicates(seq) == \A i, j \in 1 .. Len(seq) : i # j => seq[i] # seq[j]

RECURSIVE OthersFrom(_, _)
\* for (i = from; i < params.agentCount; i++) { if (i == idx) continue; ... }
OthersFrom(idx, from) ==
  IF ~U32Less(from, params.agentCount) THEN << >>
  ELSE (IF from = idx THEN << >> ELSE << from >>) \o OthersFrom(idx, from + 1)

\* the agent indices the brute-force kernel reads for agent idx, in loop order
BruteForceNeighbors(idx) == OthersFrom(idx, 0)

\* the sums of the brute-force loop of agent idx
BruteForceSums(idx, agentsIn) ==
  AccumulateFrom(ZeroSums, agentsIn[idx], agentsIn, BruteForceNeighbors(idx), 1)

(***************************************************************************)
(* Properties.                                                             *)
(***************************************************************************)
\* C1: in every frame the force kernel reads agents only from the buffer in
\* the read role and writes only to the buffer in the write role, and the two
\* are different physical buffers: no buffer is both read and written by the
\* kernel within one frame.
ReadWriteBuffersDistinct ==
  /\ ReadBuffer # WriteBuffer
  /\ evalReads \cap evalWrites = {}
  /\ EVALUATING => (evalReads \subseteq {ReadBuffer} /\ evalWrites \subseteq {WriteBuffer})

\* C1, witness: the second frame's compute pass has run to its end, reading
\* buffer 1 and writing buffer 0
SecondFrameEvaluated ==
  /\ EVALUATING
  /\ frameCount = 2
  /\ AllDone(evalPc)
  /\ evalReads = {1}
  /\ evalWrites = {0}

\* C2: the buffer the compute pass wrote in frame n is the buffer the compute
\* pass reads in frame n + 1, and it is not the buffer frame n + 1 writes: the
\* roles alternate every frame.
RolesAlternate ==
  (EVALUATING /\ prevWritten # NoBuffer) =>
    /\ ReadBuffer = prevWritten
    /\ WriteBuffer # prevWritten
    /\ evalReads \subseteq {prevWritten}
    /\ prevWritten \notin evalWrites

\* C2, witness: an invocation of the second frame has read the buffer the
\* first frame wrote
ReadsPreviousOutput ==
  /\ EVALUATING
  /\ frameCount = 2
  /\ prevWritten = 1
  /\ evalReads = {prevWritten}

SlotsDistinct ==
  /\ \A s \in Slots : Cardinality(slotWriters[s]) <= 1
  /\ \A a \in Agents : Cardinality({ s \in Slots : a \in slotWriters[s] }) <= 1
  /\ \A a, b \in Agents :
       (a # b /\ Inserted(a) /\ Inserted(b) /\ popCell[a] = popCell[b])
         => popSlot[a] # popSlot[b]

\* C5, witness: two invocations are between their atomicAdd on the same cell
\* and their slot write
TwoInsertsInFlight ==
  \E a, b \in Agents :
    /\ a # b
    /\ POPULATING
    /\ popPc[a] = "write"
    /\ popPc[b] = "write"
    /\ popCell[a] = popCell[b]

\* C6: after the populate pass, the slots of a cell below
\* min(counter, capacity) each hold an agent written in this frame whose
\* cell this is, the agents in them are distinct, and no other slot of the
\* cell was written in this frame.
ValidEntries ==
  EVALUATING =>
    \A c \in Cells :
      /\ \A s \in ValidSlots(c) :
           /\ gridData[s] \in Agents
           /\ slotWriters[s] = {gridData[s]}
           /\ c \in HomeCells(gridData[s])
      /\ Cardinality(Stored(c)) = ValidCount(c)
      /\ \A s \in UnusedSlots(c) : slotWriters[s] = {}

\* C6, witness: after the populate pass one cell is full and another cell
\* holds an agent
TwoCellsPopulated ==
  /\ EVALUATING
  /\ \E c, d \in Cells :
       /\ c # d
       /\ ValidCount(c) = params.maxAgentsPerCell
       /\ ValidCount(d) >= 1

\* C7: after the populate pass, an agent whose cell has a counter of at most
\* the capacity is in one of the valid slots of its cell.
GridComplete ==
  EVALUATING =>
    \A a \in Agents :
      (\A c \in HomeCells(a) : ~Overflowed(c)) => (\E c \in HomeCells(a) : a \in Stored(c))

\* C7, witness: after the populate pass a cell holds exactly as many agents
\* as it has slots, and each of them is stored
FullCellComplete ==
  /\ EVALUATING
  /\ \E c \in Cells :
       /\ gridIndices[c] = params.maxAgentsPerCell
       /\ \A a \in Agents : HomeCells(a) = {c} => a \in Stored(c)
       /\ \E a \in Agents : HomeCells(a) = {c}

\* C8: an insert that finds its cell full writes no slot; a cell whose
\* counter exceeds the capacity holds exactly capacity agents, each of that
\* cell; no slot of a cell is written by an agent of another cell; and with
\* a cell overflowed the frame goes on: a dropped insert ends, the compute
\* pass begins, the scan of every agent reads slots of the grid only and
\* gives an output, and the swap follows.
OverflowDropsExcess ==
  /\ \A a \in Agents :
       (POPULATING /\ popPc[a] = "done" /\ ~U32Less(popSlot[a], params.maxAgentsPerCell))
         => \A s \in Slots : a \notin slotWriters[s]
  /\ EVALUATING =>
       \A c \in Cells :
         Overflowed(c) =>
           /\ Cardinality(Stored(c)) = params.maxAgentsPerCell
           /\ \A s \in ValidSlots(c) : c \in HomeCells(gridData[s])
  /\ (POPULATING \/ EVALUATING) =>
       \A c \in Cells : \A k \in 0 .. (params.maxAgentsPerCell - 1) :
         \A a \in slotWriters[GridDataIdx(c, k)] : c \in HomeCells(a)
  /\ (\E c \in Cells : Overflowed(c)) =>
       /\ \A a \in AgentInvocations :
            (POPULATING /\ popPc[a] = "write") => ENABLED PopulateWrite(a)
       /\ (POPULATING /\ AllDone(popPc)) => ENABLED StartEvaluate
       /\ EVALUATING =>
            \A idx \in Agents : \A agentGridPos \in worldToGrid(ReadAgents[idx].position) :
              /\ Range(ScanSlots(agentGridPos)) \subseteq Slots
              /\ Integrate(GridSums(idx, ReadAgents, agentGridPos),
                           ReadAgents[idx], deltaTime) # {}
       /\ (EVALUATING /\ AllDone(evalPc)) => ENABLED Swap

\* C8, witness: a frame in which a cell overflowed has run to the swap, with
\* every force invocation done
OverflowFrameCompleted ==
  /\ phase = "SWAPPED"
  /\ \E c \in Cells : Overflowed(c)
  /\ AllDone(evalPc)
  /\ evalWrites # {}

\* C9: in every frame, after the populate pass, every slot of a cell at or
\* above min(counter, capacity) holds EMPTY_CELL_MARKER.
UnusedSlotsEmpty ==
  EVALUATING =>
    \A c \in Cells : \A s \in UnusedSlots(c) : gridData[s] = EMPTY_CELL_MARKER

\* C10: with every agent inside the world and no cell overflowed, the agents
\* the 3x3 scan of an agent accepts within each of the three radii are those
\* the brute-force loop accepts, the scan reads no agent twice, and the three
\* counts agree.
GridScanMatchesBruteForce ==
  (/\ EVALUATING
   /\ \A c \in Cells : ~Overflowed(c)
   /\ \A a \in Agents : ~VecIsNaN(ReadAgents[a].position)) =>
    \A idx \in Agents : \A agentGridPos \in worldToGrid(ReadAgents[idx].position) :
      LET scan  == ScanNeighbors(idx, agentGridPos)
          brute == BruteForceNeighbors(idx)
          agent == ReadAgents[idx]
          grid  == GridSums(idx, ReadAgents, agentGridPos)
          all   == BruteForceSums(idx, ReadAgents)
      IN  /\ NoDuplicates(scan)
          /\ { n \in Range(scan) : InSeparation(agent, ReadAgents[n]) }
               = { n \in Range(brute) : InSeparation(agent, ReadAgents[n]) }
          /\ { n \in Range(scan) : InAlignment(agent, ReadAgents[n]) }
               = { n \in Range(brute) : InAlignment(agent, ReadAgents[n]) }
          /\ { n \in Range(scan) : InCohesion(agent, ReadAgents[n]) }
               = { n \in Range(brute) : InCohesion(agent, ReadAgents[n]) }
          /\ grid.separationCount = all.separationCount
          /\ grid.alignmentCount = all.alignmentCount
          /\ grid.cohesionCount = all.cohesionCount

\* C10, witness: no cell has overflowed, and the scan of an agent finds a
\* neighbor within the alignment radius in another cell
NeighborAcrossCells ==
  /\ EVALUATING
  /\ \A c \in Cells : ~Overflowed(c)
  /\ \A a \in Agents : ~VecIsNaN(ReadAgents[a].position)
  /\ \E idx, n \in Agents :
       /\ HomeCells(idx) \cap HomeCells(n) = {}
       /\ InAlignment(ReadAgents[idx], ReadAgents[n])
       /\ \A agentGridPos \in worldToGrid(ReadAgents[idx].position) :
            n \in Range(ScanNeighbors(idx, agentGridPos))

(***************************************************************************)
(* Properties of the integration step.                                     *)
(***************************************************************************)
SWAPPED == phase = "SWAPPED"

\* agentsOut of the compute pass that has just ended
WrittenAgents == agentBuffers[prevWritten]

\* agentsIn of the compute pass that has just ended
ReadBefore == agentBuffers[1 - prevWritten]

\* a finite f32 in [low, high]
InRange(e, low, high) == ~IsNaN(e) /\ low <= e /\ e <= high

\* length(v) <= m, decided on the squares
LengthAtMost(v, m) == ~VecIsNaN(v) /\ Dot(v, v) <= m * m

\* C11: after the compute pass, every agent's written position is inside
\* the world: 0 <= x <= worldSize.x and 0 <= y <= worldSize.y.
PositionsContained ==
  SWAPPED =>
    \A a \in Agents :
      /\ InRange(WrittenAgents[a].position[1], 0, params.worldSize[1])
      /\ InRange(WrittenAgents[a].position[2], 0, params.worldSize[2])

\* C12: after the compute pass, every agent's written velocity has a
\* magnitude of at most maxSpeed.
SpeedBounded ==
  SWAPPED => \A a \in Agents : LengthAtMost(WrittenAgents[a].velocity, params.maxSpeed)

\* C13: in the force kernel a term whose vector is the zero vector
\* contributes zero, and every record the kernel can write is finite.
ZeroVectorsGuarded ==
  EVALUATING =>
    \A idx \in Agents : \A agentGridPos \in worldToGrid(ReadAgents[idx].position) :
      LET agent == ReadAgents[idx]
          sums  == GridSums(idx, ReadAgents, agentGridPos)
          toCentroid == VSub(sums.cohesion, VScale(agent.position, sums.cohesionCount))
      IN  /\ sums.separation = ZeroVec => SeparationTerm(sums) = ZeroVec
          /\ sums.alignment = ZeroVec => AlignmentTerm(sums) = ZeroVec
          /\ toCentroid = ZeroVec => CohesionTerm(sums, agent) = ZeroVec
          /\ \A out \in Integrate(sums, agent, deltaTime) :
               ~VecIsNaN(out.position) /\ ~VecIsNaN(out.velocity)

\* the agent is farther than edgeAvoidanceDistance from every edge
Interior(agent) ==
  /\ FGreater(agent.position[1], params.edgeAvoidanceDistance)
  /\ FLess(agent.position[1], params.worldSize[1] - params.edgeAvoidanceDistance)
  /\ FGreater(agent.position[2], params.edgeAvoidanceDistance)
  /\ FLess(agent.position[2], params.worldSize[2] - params.edgeAvoidanceDistance)

\* no other agent is within a radius of agent idx
Isolated(idx) ==
  /\ ~VecIsNaN(ReadAgents[idx].position)
  /\ ~VecIsNaN(ReadAgents[idx].velocity)
  /\ \A n \in Agents \ {idx} :
       /\ ~InSeparation(ReadAgents[idx], ReadAgents[n])
       /\ ~InAlignment(ReadAgents[idx], ReadAgents[n])
       /\ ~InCohesion(ReadAgents[idx], ReadAgents[n])

\* C14: for an agent with no other agent within a radius, the separation,
\* alignment and cohesion terms are zero and the acceleration is the edge
\* force; if the agent is also farther than edgeAvoidanceDistance from every
\* edge, the velocity the kernel writes is the velocity it read.
IsolatedAgentUnforced ==
  EVALUATING =>
    \A idx \in Agents :
      Isolated(idx) =>
        \A agentGridPos \in worldToGrid(ReadAgents[idx].position) :
          LET agent == ReadAgents[idx]
              sums  == GridSums(idx, ReadAgents, agentGridPos)
          IN  /\ SeparationTerm(sums) = ZeroVec
              /\ AlignmentTerm(sums) = ZeroVec
              /\ CohesionTerm(sums, agent) = ZeroVec
              /\ Acceleration(sums, agent) = EdgeForce(agent)
              /\ Interior(agent) =>
                   \A out \in Integrate(sums, agent, deltaTime) :
                     out.velocity = agent.velocity

\* C14, witness: the kernel has written an isolated agent that is away from
\* the edges and moves: the velocity is the one read, the position is not
IsolatedAgentWritten ==
  /\ EVALUATING
  /\ \E idx \in Agents :
       /\ Isolated(idx)
       /\ Interior(ReadAgents[idx])
       /\ evalPc[idx] = "done"
       /\ agentBuffers[WriteBuffer][idx].velocity = ReadAgents[idx].velocity
       /\ agentBuffers[WriteBuffer][idx].position # ReadAgents[idx].position
       /\ \E n \in Agents : ~Isolated(n)

(***************************************************************************)
(* The two-agent separation scenario.                                      *)
(***************************************************************************)
\* the buffer set holds the parameters of the two-agent scenario
InScenario == params = bufferSetParams(scenarioParams)

\* the record is free of NaN
Finite(agent) == ~VecIsNaN(agent.position) /\ ~VecIsNaN(agent.velocity)

\* C19: after a frame with deltaTime 1 on the two agents at rest at (10,10)
\* and (15,10), the written x-velocities are opposite and of equal magnitude,
\* agent 0 moves toward lower x and agent 1 toward higher x, and the agents
\* are more than 5 apart.
ScenarioPushesApart ==
  (SWAPPED /\ InScenario /\ ReadBefore = TwoAtRest /\ deltaTime = 1) =>
    LET a == WrittenAgents[0]
        b == WrittenAgents[1]
    IN  /\ Finite(a) /\ Finite(b)
        /\ a.velocity[1] < 0
        /\ b.velocity[1] > 0
        /\ a.velocity[1] + b.velocity[1] = 0
        /\ DistSq(a, b) > 5 * 5

\* C20: after a frame on two agents closer than separationRadius, with the
\* separation force alone, the distance of the two written agents is at
\* least the distance of the two agents read.
SeparationNonDecreasing ==
  (SWAPPED /\ InScenario
     /\ WithinRadius(DistSq(ReadBefore[0], ReadBefore[1]), params.separationRadius)) =>
    /\ Finite(WrittenAgents[0]) /\ Finite(WrittenAgents[1])
    /\ DistSq(WrittenAgents[0], WrittenAgents[1]) >= DistSq(ReadBefore[0], ReadBefore[1])

(***************************************************************************)
(* The 3x3 scan on a grid of any content.  The buffers are in the state of *)
(* a compute pass; gridData holds any mix of agent indices, the index of   *)
(* the scanning agent, EMPTY_CELL_MARKER and indices at or above           *)
(* agentCount, and the counters hold any count, so that the scan reads     *)
(* slots no populate pass of this frame wrote.                             *)
(***************************************************************************)
\* the variables of the frame loop
pipeline == << phase, frameCount, currentBuffer, agentBuffers, deltaTime, gridData,
               gridIndices, clearPc, popPc, popCell, popSlot, evalPc, evalReads,
               evalWrites, slotWriters, prevWritten, simParams, uniformLog,
               evalUniforms, renderRead >>

\* the values a gridData slot can hold: EMPTY_CELL_MARKER, the index of an
\* agent, an index at or above agentCount left by a frame with more agents
GridValues == {EMPTY_CELL_MARKER, 0, 1, simulationParams.agentCount}

\* the period of the slot contents
FillPeriod == 4

\* the placements of initializeAgents in which the agents are all clustered
\* or all spread
StalePlacements ==
  { d \in initializeAgents :
      \A a, b \in Agents :
        (d[a].position = Vec(5 + 6 * a, 5 + a * a)) = (d[b].position = Vec(5 + 6 * b, 5 + b * b)) }

\* gridData filled with a repeating run of FillPeriod values
StaleGrids ==
  { [s \in Slots |-> fill[s % FillPeriod]] : fill \in [0 .. (FillPeriod - 1) -> GridValues] }

\* the counters: one entry per cell, or more than a cell holds
StaleCounts == {1, MAX_AGENTS_PER_CELL + 1}

StaleGridInit ==
  /\ simParams = bufferSetParams(simulationParams)
  /\ probe = NoProbe
  /\ phase = "EVALUATING_AND_INTEGRATING"
  /\ frameCount = 1
  /\ currentBuffer = 0
  /\ \E initialAgentData \in StalePlacements :
       agentBuffers = [b \in {0, 1} |-> initialAgentData]
  /\ deltaTime = 1
  /\ gridData \in StaleGrids
  /\ \E count \in StaleCounts : gridIndices = [c \in Cells |-> count]
  /\ clearPc = [i \in ClearInvocations |-> "done"]
  /\ popPc = [i \in AgentInvocations |-> "done"]
  /\ popCell = [i \in AgentInvocations |-> 0]
  /\ popSlot = [i \in AgentInvocations |-> 0]
  /\ evalPc = [i \in AgentInvocations |-> "pending"]
  /\ evalReads = {}
  /\ evalWrites = {}
  /\ slotWriters = [s \in Slots |-> {}]
  /\ prevWritten = NoBuffer
  /\ uniformLog = << updateUniforms(bufferSetParams(simulationParams), 1) >>
  /\ evalUniforms = {}
  /\ renderRead = NoBuffer
  /\ PageLoaded

\* the values the scan around agentGridPos reads from gridData, in loop order
ScanRead(agentGridPos) ==
  LET slots == ScanSlots(agentGridPos)
  IN  [k \in 1 .. Len(slots) |-> gridData[slots[k]]]

\* the limits the momentum kernel can be given in params.maxNeighbors
MaxNeighborsChoices == 0 .. 2

\* the momentum kernel's scan: the same loops, left as soon as
\* neighborsProcessed has reached maxNeighbors, so that it reads the first
\* maxNeighbors candidates of the scan
MomentumScanNeighbors(idx, agentGridPos, maxNeighbors) ==
  LET candidates == ScanNeighbors(idx, agentGridPos)
  IN  SubSeq(candidates, 1, U32Min(Len(candidates), maxNeighbors))

\* main of the grid force kernel up to `let other = agentsIn[neighborIdx]`: the
\* indices at which the kernel reads agentsIn
ScanProbe(idx) ==
  /\ phase = "EVALUATING_AND_INTEGRATING"
  /\ U32Less(idx, params.agentCount)
  /\ \E agentGridPos \in worldToGrid(agentBuffers[ReadBuffer][idx].position) :
       probe' = [ kind      |-> "scan",
                  idx       |-> idx,
                  read      |-> ScanRead(agentGridPos),
                  neighbors |-> ScanNeighbors(idx, agentGridPos) ]
  /\ UNCHANGED << pipeline, fps, boot >>

\* the same of the momentum kernel
MomentumScanProbe(idx, maxNeighbors) ==
  /\ phase = "EVALUATING_AND_INTEGRATING"
  /\ U32Less(idx, params.agentCount)
  /\ \E agentGridPos \in worldToGrid(agentBuffers[ReadBuffer][idx].position) :
       probe' = [ kind      |-> "momentumScan",
                  idx       |-> idx,
                  read      |-> ScanRead(agentGridPos),
                  neighbors |-> MomentumScanNeighbors(idx, agentGridPos, maxNeighbors) ]
  /\ UNCHANGED << pipeline, fps, boot >>

StaleGridNext ==
  \/ \E idx \in AgentInvocations : ScanProbe(idx)
  \/ \E idx \in AgentInvocations, maxNeighbors \in MaxNeighborsChoices :
       MomentumScanProbe(idx, maxNeighbors)

StaleGridSpec == StaleGridInit /\ [][StaleGridNext]_vars

\* C15: whatever gridData and the counters hold, every index at which a force
\* kernel reads agentsIn is an agent index below agentCount, is not
\* EMPTY_CELL_MARKER and is not the index of the scanning agent.
NeighborIndicesValid ==
  probe.kind \in {"scan", "momentumScan"} =>
    \A k \in 1 .. Len(probe.neighbors) :
      /\ probe.neighbors[k] \in Agents
      /\ probe.neighbors[k] # EMPTY_CELL_MARKER
      /\ probe.neighbors[k] # probe.idx

\* C15, witness: a scan that read its own index, EMPTY_CELL_MARKER and an
\* index at or above agentCount from the grid, and read agentsIn for a neighbor
StaleEntriesSkipped ==
  /\ probe.kind = "scan"
  /\ probe.idx \in Range(probe.read)
  /\ EMPTY_CELL_MARKER \in Range(probe.read)
  /\ \E v \in Range(probe.read) : v # EMPTY_CELL_MARKER /\ v >= params.agentCount
  /\ Len(probe.neighbors) > 0

(***************************************************************************)
(* The grid functions applied on their own: worldToGrid and gridToIndex of *)
(* the two kernels and calculateGridConfig, on buffer sets of several      *)
(* world sizes and cell sizes.                                             *)
(***************************************************************************)
\* the scenario's parameters in a world of 800 x 600
worldParams == [scenarioParams EXCEPT !.worldSize = <<800, 600>>]

\* a world whose extent is no multiple of the cell size
raggedParams == [scenarioParams EXCEPT !.worldSize = <<70, 45>>, !.neighborRadius = 20]

FunctionScenes ==
  { [inputParams |-> scenarioParams, initialAgentData |-> TwoAbreast],
    [inputParams |-> worldParams, initialAgentData |-> TwoAbreast],
    [inputParams |-> raggedParams, initialAgentData |-> TwoAbreast] }

FunctionInit ==
  \E scene \in FunctionScenes :
    /\ simParams = bufferSetParams(scene.inputParams)
    /\ createBufferSet(scene.inputParams, scene.initialAgentData)
    /\ PageLoaded

\* coordinates on an axis of extent w with cells of size c: outside the world
\* on both sides, on both boundaries, and on both sides of a cell boundary
ProbeCoordinates(w, c) ==
  { 0 - (c + 5), 0 - 1, 0, 1, c - 1, c, c + 1, w - 1, w, w + 1, w + c + 7 }

ProbePositions ==
  { Vec(x, y) : x \in ProbeCoordinates(params.worldSize[1], params.gridCellSize),
                y \in ProbeCoordinates(params.worldSize[2], params.gridCellSize) }

\* worldToGrid and gridToIndex of the populate kernel and of the force kernel
\* on one position: the grid positions and the cell indices they can return
GridProbe(position) ==
  /\ probe' = [ kind          |-> "grid",
                position      |-> position,
                populatePos   |-> populateWorldToGrid(position),
                populateCells |-> { populateGridToIndex(g) : g \in populateWorldToGrid(position) },
                forcePos      |-> worldToGrid(position),
                forceCells    |-> { gridToIndex(g) : g \in worldToGrid(position) } ]
  /\ UNCHANGED << pipeline, fps, boot >>

\* the canvas sizes and the neighbor radii calculateGridConfig is given
ProbeWorldSizes ==
  { <<800, 600>>, <<60, 40>>, <<70, 45>>, <<1, 1>>, <<799, 601>>, <<1920, 1080>> }
ProbeRadii == {1, 20, 50, 64, 200}

\* calculateGridConfig(worldSize, neighborRadius) on one input
ConfigProbe(worldSize, neighborRadius) ==
  /\ probe' = [ kind           |-> "config",
                worldSize      |-> worldSize,
                neighborRadius |-> neighborRadius,
                config         |-> calculateGridConfig(worldSize, neighborRadius) ]
  /\ UNCHANGED << pipeline, fps, boot >>

\* the wraparound of one axis: if (p < 0.0) p + w else if (p > w) p - w
WrapAxis(p, w) ==
  IF FLess(p, 0) THEN FAdd(p, w)
  ELSE IF FGreater(p, w) THEN FSub(p, w)
  ELSE p

\* the wraparound kernel from "Limit speed" to "Write output": the record it
\* writes for an agent whose velocity after the forces is `velocity`
WrapIntegrate(agent, velocity, dt) ==
  LET limited  == LimitSpeed(velocity)
      position == VAdd(agent.position, VScale(limited, dt))
  IN  [ position |-> Vec(WrapAxis(position[1], params.worldSize[1]),
                         WrapAxis(position[2], params.worldSize[2])),
        velocity |-> limited ]

\* deltaTimeMs / 16.67 for the frame intervals requestAnimationFrame gives: the
\* intervals of DeltaTimes, a frame after half a second, and the first frame
\* after the page was hidden for ten seconds
WrapDeltaTimes == DeltaTimes \cup {30, 600}

\* positions inside the world and on its boundary
WorldPositions ==
  { Vec(x, y) : x \in {0, 10, params.worldSize[1] - 10, params.worldSize[1]},
                y \in {0, 10, params.worldSize[2] - 10, params.worldSize[2]} }

\* velocities after the forces: at rest, at maxSpeed along an axis, diagonal,
\* and above maxSpeed
WrapVelocities ==
  { ZeroVec, Vec(params.maxSpeed, 0), Vec(0 - params.maxSpeed, 0),
    Vec(0, params.maxSpeed), Vec(0, 0 - params.maxSpeed), Vec(1, 0 - 1),
    Vec(2 * params.maxSpeed, 0) }

\* the integration of the wraparound kernel on one agent
WrapProbe(position, velocity, dt) ==
  /\ probe' = [ kind      |-> "wrap",
                agent     |-> [position |-> position, velocity |-> velocity],
                deltaTime |-> dt,
                out       |-> WrapIntegrate([position |-> position, velocity |-> velocity],
                                            velocity, dt) ]
  /\ UNCHANGED << pipeline, fps, boot >>

\* f32 values as integers: F32_UNIT integers to 1.0, so that the coordinates
\* of a world of 800 x 600 and their sums are integers, each standing for
\* one f32 value exactly when it has at most F32_SIGNIFICAND_BITS bits
F32_UNIT == 65536
F32_SIGNIFICAND_BITS == 24

RECURSIVE BitLength(_)
BitLength(n) == IF n = 0 THEN 0 ELSE 1 + BitLength(n \div 2)

RECURSIVE Pow2(_)
Pow2(k) == IF k = 0 THEN 1 ELSE 2 * Pow2(k - 1)

\* the distance between two neighboring f32 values at the magnitude of n
Ulp(n) ==
  IF BitLength(n) <= F32_SIGNIFICAND_BITS THEN 1
  ELSE Pow2(BitLength(n) - F32_SIGNIFICAND_BITS)

\* the f32 nearest to n >= 0, ties to the even significand
F32Round(n) ==
  LET q     == Ulp(n)
      below == (n \div q) * q
      rest  == n - below
  IN  IF 2 * rest < q THEN below
      ELSE IF 2 * rest > q THEN below + q
      ELSE IF (n \div q) % 2 = 0 THEN below ELSE below + q

\* a + b of two f32 values a, b >= 0
F32Add(a, b) == F32Round(a + b)

\* the agents of one cell: the agent evaluated and three others within its
\* cohesion radius, on one horizontal line, x coordinates a few f32 steps
\* apart from 160, 170 and 180
ClusterOffsets == 0 .. 2
Cluster(d2, d3) ==
  [a \in 0 .. 3 |->
     CASE a = 0 -> Vec(175 * F32_UNIT, 100 * F32_UNIT)
       [] a = 1 -> Vec(160 * F32_UNIT, 100 * F32_UNIT)
       [] a = 2 -> Vec(170 * F32_UNIT + d2, 100 * F32_UNIT)
       [] a = 3 -> Vec(180 * F32_UNIT + d3, 100 * F32_UNIT)]

\* the slots of the cell after the populate pass: each order in which the
\* four atomicAdd calls can hand out the slots
SlotOrders ==
  { slots \in [1 .. 4 -> 0 .. 3] : \A i, j \in 1 .. 4 : i # j => slots[i] # slots[j] }

\* a skip test that lets the agent meet itself
IsClusterCandidateSelf(idx, neighborIdx, agentCount) ==
  ~(neighborIdx = EMPTY_CELL_MARKER \/ ~U32Less(neighborIdx, agentCount))

\* the negation of: neighborIdx == idx || neighborIdx == EMPTY_CELL_MARKER ||
\*                  neighborIdx >= params.agentCount
IsClusterCandidate(idx, neighborIdx, agentCount) ==
  ~(neighborIdx = idx \/ neighborIdx = EMPTY_CELL_MARKER \/
    ~U32Less(neighborIdx, agentCount))

\* distSq < cohesionRadius * cohesionRadius for two agents on one horizontal
\* line, decided on the distance along x (cohesionRadius = 40)
ClusterInCohesion(agent, other) ==
  LET dx == agent[1] - other[1]
  IN  agent[2] = other[2] /\ dx < 40 * F32_UNIT /\ 0 - dx < 40 * F32_UNIT

\* the loop over the slots of the cell from slot i on, for the cohesion sum:
\* cohesion = cohesion + other.position; cohesionCount = cohesionCount + 1u
RECURSIVE ClusterLoop(_, _, _, _, _)
ClusterLoop(acc, idx, positions, slots, i) ==
  IF i > Len(slots) THEN acc
  ELSE LET neighborIdx == slots[i]
           other == positions[neighborIdx]
       IN  IF ~IsClusterCandidate(idx, neighborIdx, 4) THEN
             ClusterLoop(acc, idx, positions, slots, i + 1)
           ELSE IF ClusterInCohesion(positions[idx], other) THEN
             ClusterLoop([cohesion      |-> Vec(F32Add(acc.cohesion[1], other[1]),
                                                F32Add(acc.cohesion[2], other[2])),
                          cohesionCount |-> acc.cohesionCount + 1,
                          processed     |-> Append(acc.processed, neighborIdx)],
                         idx, positions, slots, i + 1)
           ELSE ClusterLoop([acc EXCEPT !.processed = Append(@, neighborIdx)],
                            idx, positions, slots, i + 1)

\* the scan of agent 0 over its own cell, the slots in the given order
ClusterProbe(positions, slots) ==
  /\ probe' = [ kind      |-> "cluster",
                positions |-> positions,
                slots     |-> slots,
                sums      |-> ClusterLoop([cohesion |-> ZeroVec, cohesionCount |-> 0,
                                           processed |-> << >>],
                                          0, positions, slots, 1) ]
  /\ UNCHANGED << pipeline, fps, boot >>

\* the divisor of frame(): Math.ceil(simulationParams.agentCount / 64)
DISPATCH_DIVISOR == 64

\* @workgroup_size of the force kernel and of the capped force kernel
FORCE_WORKGROUP_SIZE == 64
CAPPED_WORKGROUP_SIZE == 32
KernelWorkgroupSizes == {FORCE_WORKGROUP_SIZE, CAPPED_WORKGROUP_SIZE}

\* agent counts around the workgroup sizes, and the count main starts with
DispatchAgentCounts == {1, 32, 33, 64, 65, 100}

\* the compute pass of frame() for a kernel of this workgroup size: the
\* workgroups dispatched, the invocations they make, and the agents whose
\* record an invocation writes (those with idx < agentCount)
DispatchProbe(agentCount, workgroupSize) ==
  /\ LET workgroupCount == Ceil(agentCount, DISPATCH_DIVISOR)
         invocations == workgroupCount * workgroupSize
     IN  probe' = [ kind           |-> "dispatch",
                    agentCount     |-> agentCount,
                    workgroupSize  |-> workgroupSize,
                    workgroupCount |-> workgroupCount,
                    invocations    |-> invocations,
                    written        |-> { idx \in 0 .. (invocations - 1) :
                                           U32Less(idx, agentCount) } ]
  /\ UNCHANGED << pipeline, fps, boot >>

FunctionNext ==
  \/ \E position \in ProbePositions : GridProbe(position)
  \/ \E worldSize \in ProbeWorldSizes, neighborRadius \in ProbeRadii :
       ConfigProbe(worldSize, neighborRadius)
  \/ \E position \in WorldPositions, velocity \in WrapVelocities, dt \in WrapDeltaTimes :
       WrapProbe(position, velocity, dt)
  \/ \E agentCount \in DispatchAgentCounts, workgroupSize \in KernelWorkgroupSizes :
       DispatchProbe(agentCount, workgroupSize)

FunctionSpec == FunctionInit /\ [][FunctionNext]_vars

\* the grid positions of the grid
GridPositions ==
  { Vec(cx, cy) : cx \in 0 .. (params.gridWidth - 1), cy \in 0 .. (params.gridHeight - 1) }

\* C16: for a position inside, on or outside the world boundary, worldToGrid
\* of both kernels returns (clamp(floor(x / cellSize), 0, gridWidth - 1),
\* clamp(floor(y / cellSize), 0, gridHeight - 1)), gridToIndex of both kernels
\* returns cy * gridWidth + cx, which lies in 0 .. gridWidth * gridHeight - 1,
\* and gridToIndex gives different indices for different cells.
GridIndexerExact ==
  probe.kind = "grid" =>
    LET ClampedFloor(x, cellSize, limit) ==
          LET f == x \div cellSize
          IN  IF f < 0 THEN 0 ELSE IF f > limit THEN limit ELSE f
        cx == ClampedFloor(probe.position[1], params.gridCellSize, params.gridWidth - 1)
        cy == ClampedFloor(probe.position[2], params.gridCellSize, params.gridHeight - 1)
    IN  /\ probe.forcePos = {Vec(cx, cy)}
        /\ probe.populatePos = {Vec(cx, cy)}
        /\ probe.forceCells = {cy * params.gridWidth + cx}
        /\ probe.populateCells = probe.forceCells
        /\ probe.forceCells \subseteq 0 .. (params.gridWidth * params.gridHeight - 1)
        /\ \A g1, g2 \in GridPositions :
             g1 # g2 => /\ gridToIndex(g1) # gridToIndex(g2)
                        /\ populateGridToIndex(g1) # populateGridToIndex(g2)

\* C16, witness: the two kernels were given a position left of the world and
\* beyond its far edge in y, and returned the first column of the last row
OutsidePositionIndexed ==
  /\ probe.kind = "grid"
  /\ probe.position[1] < 0 - params.gridCellSize
  /\ probe.position[2] > params.worldSize[2]
  /\ params.gridHeight > 1
  /\ probe.forceCells = {(params.gridHeight - 1) * params.gridWidth}
  /\ probe.populateCells = {(params.gridHeight - 1) * params.gridWidth}

\* C17: calculateGridConfig returns cellSize = neighborRadius and, on each
\* axis, the least number of cells that covers the world (the ceiling of
\* extent / cellSize); world 800 x 600 with cellSize 50 gives 16 x 12 = 192
\* cells; every coordinate inside the world falls in a cell of the grid
\* before clamping, except the far boundary itself.
GridConfigCovers ==
  probe.kind = "config" =>
    LET config == probe.config
        Covers(cells, extent) ==
          /\ (cells - 1) * config.cellSize < extent
          /\ extent <= cells * config.cellSize
        Unclamped(cells, extent) ==
          \A x \in 0 .. extent : x \div config.cellSize \in 0 .. (cells - 1) \/ x = extent
    IN  /\ config.cellSize = probe.neighborRadius
        /\ Covers(config.gridWidth, probe.worldSize[1])
        /\ Covers(config.gridHeight, probe.worldSize[2])
        /\ (probe.worldSize = <<800, 600>> /\ probe.neighborRadius = 50) =>
             /\ config.gridWidth = 16
             /\ config.gridHeight = 12
             /\ config.gridWidth * config.gridHeight = 192
        /\ Unclamped(config.gridWidth, probe.worldSize[1])
        /\ Unclamped(config.gridHeight, probe.worldSize[2])

\* C17, witness: calculateGridConfig was applied to world 800 x 600 with
\* radius 50 and returned 192 cells, and the far boundary x = 800 needs the clamp
DefaultGridConfigured ==
  /\ probe.kind = "config"
  /\ probe.worldSize = <<800, 600>>
  /\ probe.neighborRadius = 50
  /\ probe.config.gridWidth * probe.config.gridHeight = 192
  /\ 800 \div probe.config.cellSize = probe.config.gridWidth

\* C18: the position the wraparound kernel writes lies in [0, worldSize] on
\* both axes and the written speed is at most maxSpeed, for an agent inside
\* the world and each deltaTime of the frame loop.
WrapContained ==
  probe.kind = "wrap" =>
    /\ LengthAtMost(probe.out.velocity, params.maxSpeed)
    /\ InRange(probe.out.position[1], 0, params.worldSize[1])
    /\ InRange(probe.out.position[2], 0, params.worldSize[2])

(***************************************************************************)
(* The configuration boundary: getSliderValues, updateSimulationParams,    *)
(* createBufferSetWithNewAgentCount and getDefaultSimulationParams.        *)
(* Parameter values are in tenths (UNIT is 1.0), so that the limits 0.1    *)
(* and 1.5 are numbers of the model.                                       *)
(***************************************************************************)
\* 1.0 of a parameter value
UNIT == 10

\* an Error value
Error(message) == [error |-> message]
IsError(result) == "error" \in DOMAIN result

\* getDefaultSimulationParams(worldSize)
getDefaultSimulationParams(worldSize) ==
  LET gridConfig == calculateGridConfig(worldSize, 50 * UNIT)
  IN  [ agentCount       |-> 100,
        separationRadius |-> 20 * UNIT,
        alignmentRadius  |-> 40 * UNIT,
        cohesionRadius   |-> 40 * UNIT,
        separationForce  |-> 15,
        alignmentForce   |-> 1 * UNIT,
        cohesionForce    |-> 1 * UNIT,
        maxSpeed         |-> 2 * UNIT,
        worldSize        |-> worldSize,
        neighborRadius   |-> 50 * UNIT,
        gridCellSize     |-> gridConfig.cellSize,
        gridWidth        |-> gridConfig.gridWidth,
        gridHeight       |-> gridConfig.gridHeight,
        maxAgentsPerCell |-> gridConfig.maxAgentsPerCell ]

\* getSliderValues(panel): the entries <<id, parseFloat(slider.value)>> in the
\* order of the sliders, without those whose value is NaN
getSliderValues(sliders) ==
  LET Numeric(entry) == ~IsNaN(entry.value)
  IN  SelectSeq(sliders, Numeric)

\* a radius test without the lower limit
RadiusOutOfRangeAbove(value) == FGreater(value, 200 * UNIT)

\* value < 1 || value > 200
RadiusOutOfRange(value) == FLess(value, 1 * UNIT) \/ FGreater(value, 200 * UNIT)

\* value < 0.1 || value > 10
ForceOutOfRange(value) == FLess(value, 1) \/ FGreater(value, 10 * UNIT)

\* value < 0.1 || value > 20
MaxSpeedOutOfRange(value) == FLess(value, 1) \/ FGreater(value, 20 * UNIT)

RadiusIds == {"separationRadius", "alignmentRadius", "cohesionRadius"}
ForceIds == {"separationForce", "alignmentForce", "cohesionForce"}

\* one case of the switch: the record after the entry, or an Error
ApplyEntry(updates, parameterId, value) ==
  IF parameterId \in RadiusIds
  THEN IF RadiusOutOfRange(value) THEN Error("radius must be between 1 and 200")
       ELSE [updates EXCEPT ![parameterId] = value]
  ELSE IF parameterId \in ForceIds
  THEN IF ForceOutOfRange(value) THEN Error("force must be between 0.1 and 10")
       ELSE [updates EXCEPT ![parameterId] = value]
  ELSE IF parameterId = "maxSpeed"
  THEN IF MaxSpeedOutOfRange(value) THEN Error("Max speed must be between 0.1 and 20")
       ELSE [updates EXCEPT !.maxSpeed = value]
  ELSE Error("Unknown parameter")

RECURSIVE ApplyEntries(_, _, _)
\* the for loop over parameterUpdates from entry k on: it returns at the
\* first Error
ApplyEntries(updates, parameterUpdates, k) ==
  IF k > Len(parameterUpdates) THEN updates
  ELSE LET next == ApplyEntry(updates, parameterUpdates[k].id, parameterUpdates[k].value)
       IN  IF IsError(next) THEN next
           ELSE ApplyEntries(next, parameterUpdates, k + 1)

\* Math.max(a, b, c): NaN if an argument is NaN
MathMax(a, b, c) ==
  IF IsNaN(a) \/ IsNaN(b) \/ IsNaN(c) THEN NaN
  ELSE IF a >= b /\ a >= c THEN a ELSE IF b >= c THEN b ELSE c

\* a comparison that never sees a change
StrictNotEqualNever(a, b) == FALSE

\* a !== b on numbers
StrictNotEqual(a, b) == IsNaN(a) \/ IsNaN(b) \/ a # b

\* updateSimulationParams(currentParams, parameterUpdates)
updateSimulationParams(currentParams, parameterUpdates) ==
  LET updates == ApplyEntries(currentParams, parameterUpdates, 1)
  IN  IF IsError(updates) THEN updates
      ELSE LET maxRadius == MathMax(updates.separationRadius, updates.alignmentRadius,
                                    updates.cohesionRadius)
               withRadius == [updates EXCEPT !.neighborRadius = maxRadius]
           IN  IF StrictNotEqual(withRadius.neighborRadius, currentParams.neighborRadius)
               THEN LET gridConfig == calculateGridConfig(withRadius.worldSize,
                                                          withRadius.neighborRadius)
                    IN  [withRadius EXCEPT !.gridCellSize = gridConfig.cellSize,
                                           !.gridWidth = gridConfig.gridWidth,
                                           !.gridHeight = gridConfig.gridHeight,
                                           !.maxAgentsPerCell = gridConfig.maxAgentsPerCell]
               ELSE withRadius

\* createBufferSetWithNewAgentCount(device, currentParams, newAgentCount): an
\* Error, or the params of the buffer set createBufferSet returns
createBufferSetWithNewAgentCount(currentParams, newAgentCount) ==
  IF FLess(newAgentCount, 1) \/ FGreater(newAgentCount, 10000)
  THEN Error("Agent count must be between 1 and 10000")
  ELSE LET updatedParams == [currentParams EXCEPT !.agentCount = newAgentCount]
           gridConfig == calculateGridConfig(updatedParams.worldSize,
                                             updatedParams.neighborRadius)
       IN  [updatedParams EXCEPT !.gridCellSize = gridConfig.cellSize,
                                 !.gridWidth = gridConfig.gridWidth,
                                 !.gridHeight = gridConfig.gridHeight,
                                 !.maxAgentsPerCell = gridConfig.maxAgentsPerCell]

\* the number of updates in a row
MaxUpdates == 2

\* parseFloat(slider.value) of the sliders: values below, on and above each
\* limit, a radius above the default neighbor radius, and NaN
RadiusValues ==
  {NaN, 9, 1 * UNIT, 45 * UNIT, 50 * UNIT, 60 * UNIT, 200 * UNIT, 200 * UNIT + 1}
ForceValues == {NaN, 0, 1, 10 * UNIT, 10 * UNIT + 1}
MaxSpeedValues == {0, 1, 20 * UNIT, 20 * UNIT + 1}

Entry(id, value) == [id |-> id, value |-> value]

\* one slider of the panel; agentCount is an id updateSimulationParams does
\* not know
SliderEntries ==
  { Entry(id, value) : id \in RadiusIds, value \in RadiusValues }
    \cup { Entry(id, value) : id \in ForceIds, value \in ForceValues }
    \cup { Entry("maxSpeed", value) : value \in MaxSpeedValues }
    \cup { Entry("agentCount", 50) }

\* a second slider of the panel
SecondEntries ==
  { Entry("cohesionRadius", 45 * UNIT), Entry("alignmentForce", 0),
    Entry("maxSpeed", NaN), Entry("agentCount", 50) }

\* the sliders of a panel: one, or two with different ids
SliderPanels ==
  { <<e>> : e \in SliderEntries }
    \cup { <<pair[1], pair[2]>> :
             pair \in { q \in SliderEntries \X SecondEntries : q[1].id # q[2].id } }

\* the agent counts createBufferSetWithNewAgentCount is given
AgentCounts == {0 - 1, 0, 1, 250, 10000, 10001}

ParamsInit == createBufferSet(worldParams, TwoAbreast) /\ PageLoaded

ParamsProbed == probe.kind \in {"update", "agentCount"}

\* the parameter record in force: the default record of the canvas, or the
\* record of the last successful update
CurrentParams ==
  IF ParamsProbed THEN probe.params
  ELSE getDefaultSimulationParams(<<UNIT * params.worldSize[1], UNIT * params.worldSize[2]>>)

UpdateCount == IF ParamsProbed THEN probe.n ELSE 0

\* updateSimulationParams on the values of a panel
UpdateProbe(sliders) ==
  /\ UpdateCount < MaxUpdates
  /\ LET parameterUpdates == getSliderValues(sliders)
         result == updateSimulationParams(CurrentParams, parameterUpdates)
     IN  probe' = [ kind    |-> "update",
                    current |-> CurrentParams,
                    sliders |-> sliders,
                    updates |-> parameterUpdates,
                    result  |-> result,
                    params  |-> IF IsError(result) THEN CurrentParams ELSE result,
                    n       |-> UpdateCount + 1 ]
  /\ UNCHANGED << pipeline, fps, boot >>

\* createBufferSetWithNewAgentCount on one agent count
AgentCountProbe(newAgentCount) ==
  /\ UpdateCount < MaxUpdates
  /\ LET result == createBufferSetWithNewAgentCount(CurrentParams, newAgentCount)
     IN  probe' = [ kind          |-> "agentCount",
                    current       |-> CurrentParams,
                    newAgentCount |-> newAgentCount,
                    result        |-> result,
                    params        |-> IF IsError(result) THEN CurrentParams ELSE result,
                    n             |-> UpdateCount + 1 ]
  /\ UNCHANGED << pipeline, fps, boot >>

ParamsNext ==
  \/ \E sliders \in SliderPanels : UpdateProbe(sliders)
  \/ \E newAgentCount \in AgentCounts : AgentCountProbe(newAgentCount)

ParamsSpec == ParamsInit /\ [][ParamsNext]_vars

MaxKeys == 4
MaxTicks == 3

\* updateFrameTime(state, currentTime): [...frameTimes, currentTime].slice(-60)
updateFrameTime(state, currentTime) ==
  LET appended == Append(state.frameTimes, currentTime)
      newFrameTimes ==
        IF Len(state.frameTimes) = 0 THEN << currentTime >>
        ELSE SubSeq(appended, Len(appended) - U32Min(Len(appended), 60) + 1,
                    Len(appended))
  IN  [state EXCEPT !.frameTimes = newFrameTimes]

\* a toggle that only ever shows the counter
toggleVisibilityShow(state) == [state EXCEPT !.isVisible = TRUE]

\* toggleVisibility(state)
toggleVisibility(state) == [state EXCEPT !.isVisible = ~state.isVisible]

\* setFPSDisplayVisibility(display, isVisible)
setFPSDisplayVisibility(display, isVisible) ==
  [display EXCEPT !.display = IF isVisible THEN "block" ELSE "none"]

\* String.prototype.toLowerCase on the keys of the model
ToLowerCase(key) == IF key = "F" THEN "f" ELSE key

\* the keys pressed: F with and without shift, and another key
Keys == {"f", "F", "g"}

\* the handler registered for the F key: toggle the state, then show or hide
\* the element accordingly
toggleFPSCounter(counter) ==
  LET toggled == toggleVisibility(counter.state)
  IN  [counter EXCEPT !.state = toggled,
                      !.element = setFPSDisplayVisibility(counter.element,
                                                          toggled.isVisible),
                      !.presses = counter.presses + 1]

\* the keydown handler of createKeyboardListener('f', handler):
\* if (event.key.toLowerCase() === normalizedKey) handler()
KeyDown(key) ==
  /\ fps.keys < MaxKeys
  /\ LET normalizedKey == ToLowerCase("f")
         handled == IF ToLowerCase(key) = normalizedKey
                    THEN toggleFPSCounter(fps) ELSE fps
     IN  fps' = [handled EXCEPT !.keys = fps.keys + 1]
  /\ UNCHANGED << pipeline, probe, boot >>

\* frame timestamps in milliseconds
FrameTimestamps == {0, 16, 33}

\* updateFrameTime applied to the counter's state
FrameTimeProbe(currentTime) ==
  /\ Len(fps.state.frameTimes) < MaxTicks
  /\ fps' = [fps EXCEPT !.state = updateFrameTime(fps.state, currentTime)]
  /\ UNCHANGED << pipeline, probe, boot >>

FpsInit == createBufferSet(worldParams, TwoAbreast) /\ PageLoaded

FpsNext ==
  \/ \E key \in Keys : KeyDown(key)
  \/ \E currentTime \in FrameTimestamps : FrameTimeProbe(currentTime)

FpsSpec == FpsInit /\ [][FpsNext]_vars

Envs ==
  [canvas : {"ok", "null"},
   chrome : BOOLEAN,
   gpu : {"ok", "undefined", "absent"},
   adapter : {"ok", "null", "throws"},
   device : {"ok", "throws"},
   context : {"ok", "null"},
   configure : {"ok", "throws"},
   shaders : {"ok", "rejects"},
   modules : {"ok", "compute", "gridPopulate", "vertex", "fragment", "pipeline"}]

\* checkWebGPUSupport()
checkWebGPUSupport(env) == env.chrome /\ env.gpu # "absent"

WebGPUResources == [device |-> "device", context |-> "context", format |-> "format"]

\* an initialization that returns resources whatever the browser answers
initializeWebGPUUnchecked(env) == WebGPUResources

\* initializeWebGPU(canvas): the resources, or the Error of the first step
\* that fails
initializeWebGPU(env) ==
  IF ~checkWebGPUSupport(env)
  THEN Error("WebGPU is only supported in Chrome 113+. Please use Chrome browser with WebGPU enabled.")
  ELSE IF env.gpu = "undefined"
  THEN Error("WebGPU is not available. Please ensure you're using Chrome 113+ with WebGPU enabled.")
  ELSE IF env.adapter = "throws" THEN Error("Failed to request WebGPU adapter")
  ELSE IF env.adapter = "null" THEN Error("No appropriate GPUAdapter found")
  ELSE IF env.device = "throws" THEN Error("Failed to request WebGPU device")
  ELSE IF env.context = "null" THEN Error("Failed to get WebGPU context from canvas")
  ELSE IF env.configure = "throws" THEN Error("Failed to configure WebGPU context")
  ELSE WebGPUResources

\* loadShader(path) for the three paths of main: the shader code, or the
\* Error the promise is rejected with
loadShaders(env) ==
  IF env.shaders = "rejects" THEN Error("Failed to fetch shader from ./shader/compute.wgsl")
  ELSE [compute |-> "compute.wgsl", vertex |-> "vertex.wgsl", fragment |-> "fragment.wgsl"]

\* createPipelines(device, shaderCode): the pipeline set, or the Error thrown
createPipelines(env) ==
  IF env.modules = "compute" THEN Error("Failed to compile compute shader")
  ELSE IF env.modules = "gridPopulate" THEN Error("Failed to compile grid populate shader")
  ELSE IF env.modules = "vertex" THEN Error("Failed to compile vertex shader")
  ELSE IF env.modules = "fragment" THEN Error("Failed to compile fragment shader")
  ELSE IF env.modules = "pipeline" THEN Error("createComputePipeline failed")
  ELSE [compute |-> "computePipeline", gridPopulate |-> "gridPopulatePipeline",
        render |-> "renderPipeline"]

\* main returns after console.error(text, detail)
MainReturn(text, detail) ==
  boot' = [boot EXCEPT !.pc = "returned",
                       !.console = Append(boot.console, ConsoleError(text, detail))]

\* main goes on to the next step after console.log(text)
MainContinue(pc, text) ==
  boot' = [boot EXCEPT !.pc = pc, !.console = Append(boot.console, ConsoleLog(text))]

\* main up to the first await: the canvas lookup and the support check
MainCheckSupport ==
  /\ boot.pc = "start"
  /\ IF boot.env.canvas = "null" THEN MainReturn("Canvas element not found", "")
     ELSE IF ~checkWebGPUSupport(boot.env) THEN MainReturn(SUPPORT_ERROR, "")
     ELSE boot' = [boot EXCEPT !.pc = "initializeWebGPU"]
  /\ UNCHANGED << pipeline, probe, fps >>

\* const webgpuResult = await initializeWebGPU(canvas), and the test of it
MainInitializeWebGPU ==
  /\ boot.pc = "initializeWebGPU"
  /\ LET webgpuResult == initializeWebGPU(boot.env)
     IN  IF IsError(webgpuResult) THEN MainReturn(INIT_ERROR, webgpuResult.error)
         ELSE MainContinue("loadShaders", INIT_SUCCESS)
  /\ UNCHANGED << pipeline, probe, fps >>

\* the try block around the three loadShader calls
MainLoadShaders ==
  /\ boot.pc = "loadShaders"
  /\ LET shaderCode == loadShaders(boot.env)
     IN  IF IsError(shaderCode) THEN MainReturn(SHADERS_ERROR, shaderCode.error)
         ELSE MainContinue("createPipelines", SHADERS_SUCCESS)
  /\ UNCHANGED << pipeline, probe, fps >>

\* the try block around createPipelines
MainCreatePipelines ==
  /\ boot.pc = "createPipelines"
  /\ LET pipelines == createPipelines(boot.env)
     IN  IF IsError(pipelines) THEN MainReturn(PIPELINES_ERROR, pipelines.error)
         ELSE MainContinue("startSimulation", PIPELINES_SUCCESS)
  /\ UNCHANGED << pipeline, probe, fps >>

\* createBufferSet, the bind groups, startSimulation(): the first
\* requestAnimationFrame(frame)
MainStartSimulation ==
  /\ boot.pc = "startSimulation"
  /\ boot' = [boot EXCEPT !.pc = "running",
                          !.console = Append(boot.console, ConsoleLog(SIMULATION_STARTED)),
                          !.frameRequested = TRUE]
  /\ UNCHANGED << pipeline, probe, fps >>

\* the page before main runs, in every environment; the buffers hold what
\* createBufferSet gives them when main gets there
BootInit ==
  /\ createBufferSet(scenarioParams, TwoAbreast)
  /\ fps = FpsCreated
  /\ \E env \in Envs :
       boot = [pc |-> "start", env |-> env, console |-> << >>, frameRequested |-> FALSE]

BootNext ==
  \/ MainCheckSupport
  \/ MainInitializeWebGPU
  \/ MainLoadShaders
  \/ MainCreatePipelines
  \/ MainStartSimulation
  \/ ScenarioNext

BootSpec == BootInit /\ [][BootNext]_vars

\* what the environment refuses: the support check, the adapter, the device,
\* the context or its configuration, a shader, a shader module or a pipeline
EnvFails(env) ==
  \/ ~env.chrome
  \/ env.gpu # "ok"
  \/ env.adapter # "ok"
  \/ env.device # "ok"
  \/ env.context # "ok"
  \/ env.configure # "ok"
  \/ env.shaders # "ok"
  \/ env.modules # "ok"

Logged(text) == \E k \in 1 .. Len(boot.console) : boot.console[k].text = text
ErrorReported == \E k \in 1 .. Len(boot.console) : boot.console[k].level = "error"

\* C23: when a step of the initialization fails, main never starts the loop
\* (no frame is requested, none is started), it has not returned without
\* reporting an error, and it never logs both the success message and a
\* WebGPU initialization error
MainFailureStops ==
  /\ EnvFails(boot.env) =>
       /\ ~boot.frameRequested
       /\ boot.pc # "running"
       /\ frameCount = 0 /\ phase = "IDLE"
       /\ boot.pc = "returned" => ErrorReported
  /\ ~(Logged(INIT_SUCCESS) /\ (Logged(INIT_ERROR) \/ Logged(SUPPORT_ERROR)))
  /\ boot.pc = "returned" => ErrorReported /\ ~boot.frameRequested

\* the browser has no adapter: main has returned after reporting it
MainReturnedWithoutAdapter ==
  /\ boot.pc = "returned"
  /\ boot.env.adapter = "null"
  /\ boot.console = << ConsoleError(INIT_ERROR, "No appropriate GPUAdapter found") >>

(***************************************************************************)
(* Properties of the frame function: the render pass and the uniforms.     *)
(***************************************************************************)
\* C24: the render pass of a frame reads the agent buffer that the compute
\* pass of that frame wrote, never the buffer that pass read
RenderReadsWritten ==
  (phase = "IDLE" /\ frameCount > 0) =>
    /\ renderRead = prevWritten
    /\ evalWrites = {renderRead}
    /\ renderRead \notin evalReads

\* the second frame is rendered from the first physical buffer, which its
\* compute pass wrote
SecondFrameRendered ==
  /\ phase = "IDLE"
  /\ frameCount = 2
  /\ renderRead = 0
  /\ evalReads = {1}

\* C26: in every frame the uniform record, deltaTime included, is written
\* once, before any pass of the frame; the buffer holds that record for the
\* whole frame and every agent of the frame is evaluated with it
UniformWrittenOncePerFrame ==
  IF frameCount = 0
  THEN uniformLog = << >> /\ evalUniforms = {}
  ELSE /\ Len(uniformLog) = 1
       /\ Uniforms = uniformLog[1]
       /\ evalUniforms \subseteq {uniformLog[1]}
       /\ phase \in {"SWAPPED", "IDLE"} => evalUniforms = {uniformLog[1]}

\* the second frame took twice the baseline interval: all its agents were
\* evaluated with deltaTime = 2
SlowFrameEvaluated ==
  /\ phase = "SWAPPED"
  /\ frameCount = 2
  /\ evalUniforms = {updateUniforms(simParams, 2)}

\* C25: the invocations of the compute pass (workgroup count times the
\* kernel's workgroup size) are at least agentCount, and every agent index
\* below agentCount, and no other index, has its record written
EveryAgentDispatched ==
  probe.kind = "dispatch" =>
    /\ probe.invocations >= probe.agentCount
    /\ probe.written = 0 .. (probe.agentCount - 1)

(***************************************************************************)
(* Progress of the frame loop.  The GPU runs every invocation it was given *)
(* and the browser calls the frame callback it was asked for, so a step    *)
(* that can be taken is eventually taken.                                  *)
(***************************************************************************)
\* the invocations of the grid clear and populate kernels
ClearPass == \E idx \in ClearInvocations : GridClearMain(idx)
PopulatePass ==
  \E agentIdx \in AgentInvocations : PopulateFetch(agentIdx) \/ PopulateWrite(agentIdx)

\* an invocation of the force kernel runs to its end: the step of ForceMain
\* as the scheduler of the GPU sees it, whatever the invocation computes
ComputeStep ==
  /\ phase = "EVALUATING_AND_INTEGRATING"
  /\ \E idx \in AgentInvocations :
       /\ evalPc[idx] = "pending"
       /\ evalPc' = [evalPc EXCEPT ![idx] = "done"]

\* a pending invocation of the force kernel has a record to write: ForceMain
\* can be taken whenever ComputeStep can
KernelTotal ==
  phase = "EVALUATING_AND_INTEGRATING" =>
    \A idx \in AgentInvocations :
      (evalPc[idx] = "pending" /\ U32Less(idx, params.agentCount)) =>
        LET agentsIn == agentBuffers[ReadBuffer]
        IN  \E agentGridPos \in worldToGrid(agentsIn[idx].position) :
              Integrate(GridSums(idx, agentsIn, agentGridPos), agentsIn[idx],
                        Uniforms.deltaTime) # {}

Fairness ==
  /\ WF_vars(StartFrame)
  /\ WF_vars(ClearPass)
  /\ WF_vars(StartPopulate)
  /\ WF_vars(PopulatePass)
  /\ WF_vars(StartEvaluate)
  /\ WF_evalPc(ComputeStep)
  /\ WF_vars(Swap)
  /\ WF_vars(EndFrame)

LiveSpec == Init /\ [][Next]_vars /\ Fairness

ClusterInit == createBufferSet(worldParams, TwoAbreast) /\ PageLoaded

ClusterNext ==
  \E d2 \in ClusterOffsets, d3 \in ClusterOffsets, slots \in SlotOrders :
    ClusterProbe(Cluster(d2, d3), slots)

ClusterSpec == ClusterInit /\ [][ClusterNext]_vars

\* the sums of the same cell with the agents in the slots in index order
ClusterInIndexOrder ==
  ClusterLoop([cohesion |-> ZeroVec, cohesionCount |-> 0, processed |-> << >>],
              0, probe.positions, << 0, 1, 2, 3 >>, 1)

CapChoices == 0 .. NumAgents

\* a loop without the tests of neighborsProcessed
CappedLoopUncapped(processed, idx, read, k, maxNeighbors) ==
  SelectSeq(read, LAMBDA neighborIdx : IsNeighborCandidate(idx, neighborIdx))

\* the three nested loops from the k-th slot of the scan on.  processed holds
\* the neighbors read so far; neighborsProcessed is its length.  Each loop
\* is left when neighborsProcessed >= maxNeighbors, and once that holds it
\* holds at the head of every enclosing loop
RECURSIVE CappedLoop(_, _, _, _, _)
CappedLoop(processed, idx, read, k, maxNeighbors) ==
  LET neighborsProcessed == Len(processed)
      neighborIdx == read[k]
  IN  IF k > Len(read) THEN processed
      ELSE IF ~U32Less(neighborsProcessed, maxNeighbors) THEN processed
      ELSE IF ~IsNeighborCandidate(idx, neighborIdx)
      THEN CappedLoop(processed, idx, read, k + 1, maxNeighbors)
      ELSE CappedLoop(Append(processed, neighborIdx), idx, read, k + 1, maxNeighbors)

\* main of the capped kernel up to the end of the scan, at the start of the
\* compute pass: the neighbors whose records enter the sums of agent idx
CappedScanProbe(idx, maxNeighbors) ==
  /\ phase = "EVALUATING_AND_INTEGRATING"
  /\ U32Less(idx, params.agentCount)
  /\ \E agentGridPos \in worldToGrid(agentBuffers[ReadBuffer][idx].position) :
       probe' = [ kind         |-> "cappedScan",
                  idx          |-> idx,
                  maxNeighbors |-> maxNeighbors,
                  candidates   |-> ScanNeighbors(idx, agentGridPos),
                  processed    |-> CappedLoop(<< >>, idx, ScanRead(agentGridPos), 1,
                                              maxNeighbors) ]
  /\ UNCHANGED << pipeline, fps, boot >>

\* the frame up to the compute pass, then the scan of the capped kernel
CappedNext ==
  \/ StartFirstFrame
  \/ \E idx \in ClearInvocations : GridClearMain(idx)
  \/ StartPopulate
  \/ \E agentIdx \in AgentInvocations : PopulateFetch(agentIdx)
  \/ \E agentIdx \in AgentInvocations : PopulateWrite(agentIdx)
  \/ StartEvaluate
  \/ \E idx \in AgentInvocations, maxNeighbors \in CapChoices :
       CappedScanProbe(idx, maxNeighbors)

CappedSpec == Init /\ [][CappedNext]_vars

\* C30: the capped kernel processes at most maxNeighbors neighbors, all of
\* them distinct other agents among the valid candidates of the 3x3 block,
\* and when the block holds fewer than maxNeighbors candidates (or as many)
\* it processes all of them
NeighborsCapped ==
  probe.kind = "cappedScan" =>
    /\ Len(probe.processed) <= probe.maxNeighbors
    /\ NoDuplicates(probe.processed)
    /\ Range(probe.processed) \subseteq Range(probe.candidates) \ {probe.idx}
    /\ Len(probe.candidates) <= probe.maxNeighbors => probe.processed = probe.candidates
    /\ Len(probe.candidates) > probe.maxNeighbors =>
         Len(probe.processed) = probe.maxNeighbors

\* an agent with two candidates in its block is given maxNeighbors = 1 and
\* processes one of them
SecondNeighborCutOff ==
  /\ probe.kind = "cappedScan"
  /\ probe.maxNeighbors = 1
  /\ Len(probe.candidates) = 2
  /\ Len(probe.processed) = 1

(***************************************************************************)
(* The uniform buffer: what updateUniforms writes, byte offset by byte     *)
(* offset, against the SimParams struct each kernel declares.  Values are  *)
(* integers in units of 1 / F32_UNIT.                                      *)
(***************************************************************************)
\* struct SimParams of the force kernel, in declaration order
ForceSimParams ==
  << [name |-> "agentCount",            type |-> "u32"],
     [name |-> "separationRadius",      type |-> "f32"],
     [name |-> "alignmentRadius",       type |-> "f32"],
     [name |-> "cohesionRadius",        type |-> "f32"],
     [name |-> "separationForce",       type |-> "f32"],
     [name |-> "alignmentForce",        type |-> "f32"],
     [name |-> "cohesionForce",         type |-> "f32"],
     [name |-> "maxSpeed",              type |-> "f32"],
     [name |-> "worldSize",             type |-> "vec2<f32>"],
     [name |-> "neighborRadius",        type |-> "f32"],
     [name |-> "deltaTime",             type |-> "f32"],
     [name |-> "gridCellSize",          type |-> "f32"],
     [name |-> "gridWidth",             type |-> "u32"],
     [name |-> "gridHeight",            type |-> "u32"],
     [name |-> "maxAgentsPerCell",      type |-> "u32"],
     [name |-> "edgeAvoidanceDistance", type |-> "f32"],
     [name |-> "edgeAvoidanceForce",    type |-> "f32"] >>

\* struct SimParams of the momentum kernel with the neighbor cap
CappedSimParams ==
  ForceSimParams \o
  << [name |-> "momentumSmoothing",        type |-> "f32"],
     [name |-> "momentumDamping",          type |-> "f32"],
     [name |-> "collisionRadius",          type |-> "f32"],
     [name |-> "collisionForceMultiplier", type |-> "f32"],
     [name |-> "collisionScaling",         type |-> "f32"],
     [name |-> "maxNeighbors",             type |-> "u32"] >>

\* WGSL: u32 and f32 take 4 bytes aligned to 4, vec2<f32> 8 bytes aligned to 8
SizeOf(type) == IF type = "vec2<f32>" THEN 8 ELSE 4
AlignOf(type) == IF type = "vec2<f32>" THEN 8 ELSE 4
RoundUp(k, n) == ((n + k - 1) \div k) * k

RECURSIVE OffsetOf(_, _)
\* the byte offset of member i of a struct
OffsetOf(struct, i) ==
  IF i = 1 THEN 0
  ELSE RoundUp(AlignOf(struct[i].type),
               OffsetOf(struct, i - 1) + SizeOf(struct[i - 1].type))

\* view.setUint32(offset, value, true)
setUint32(value) == [set |-> "u32", value |-> value]
\* view.setFloat32(offset, value, true): the value as an f32
setFloat32(value) == [set |-> "f32", value |-> F32Round(value)]

\* the ArrayBuffer updateUniforms writes to the uniform buffer: the word
\* stored at each byte offset
PackUniforms(p, dt) ==
  [ offset \in { 4 * k : k \in 0 .. 24 } |->
      CASE offset = 0  -> setUint32(p.agentCount)
        [] offset = 4  -> setFloat32(p.separationRadius)
        [] offset = 8  -> setFloat32(p.alignmentRadius)
        [] offset = 12 -> setFloat32(p.cohesionRadius)
        [] offset = 16 -> setFloat32(p.separationForce)
        [] offset = 20 -> setFloat32(p.alignmentForce)
        [] offset = 24 -> setFloat32(p.cohesionForce)
        [] offset = 28 -> setFloat32(p.maxSpeed)
        [] offset = 32 -> setFloat32(p.worldSize[1])
        [] offset = 36 -> setFloat32(p.worldSize[2])
        [] offset = 40 -> setFloat32(p.neighborRadius)
        [] offset = 44 -> setFloat32(dt)
        [] offset = 48 -> setFloat32(p.gridCellSize)
        [] offset = 52 -> setUint32(p.gridWidth)
        [] offset = 56 -> setUint32(p.gridHeight)
        [] offset = 60 -> setUint32(p.maxAgentsPerCell)
        [] offset = 64 -> setFloat32(p.edgeAvoidanceDistance)
        [] offset = 68 -> setFloat32(p.edgeAvoidanceForce)
        [] offset = 72 -> setFloat32(p.momentumSmoothing)
        [] offset = 76 -> setFloat32(p.momentumDamping)
        [] offset = 80 -> setFloat32(p.collisionRadius)
        [] offset = 84 -> setFloat32(p.collisionForceMultiplier)
        [] offset = 88 -> setFloat32(p.collisionScaling)
        [] OTHER       -> setFloat32(0) ]

\* the words a kernel reads for member i of its SimParams
KernelRead(struct, buffer, i) ==
  [ k \in 1 .. SizeOf(struct[i].type) \div 4 |->
      buffer[OffsetOf(struct, i) + 4 * (k - 1)] ]

\* the words that hold the configured value of a member, as the kernel's
\* type stores them; a member the record does not configure has none
Configured(p, dt, member) ==
  IF member.name = "deltaTime" THEN << setFloat32(dt) >>
  ELSE IF member.name \notin DOMAIN p THEN << >>
  ELSE IF member.type = "vec2<f32>"
    THEN << setFloat32(p[member.name][1]), setFloat32(p[member.name][2]) >>
  ELSE IF member.type = "u32" THEN << setUint32(p[member.name]) >>
  ELSE << setFloat32(p[member.name]) >>

\* the records the uniform buffer is packed from: a complete
\* SimulationParams (of a world of 800 x 600 with cells of 50) whose agent
\* count and momentum and collision parameters vary
LayoutAgentCounts == {1, 100, 10000}
LayoutDeltaTimes == {F32_UNIT \div 2, F32_UNIT, 3 * F32_UNIT}
LayoutFractions == {6554, F32_UNIT \div 2}
LayoutParams ==
  { [ agentCount               |-> n,
      separationRadius         |-> 20 * F32_UNIT,
      alignmentRadius          |-> 40 * F32_UNIT,
      cohesionRadius           |-> 45 * F32_UNIT,
      separationForce          |-> 3 * (F32_UNIT \div 2),
      alignmentForce           |-> F32_UNIT,
      cohesionForce            |-> 2 * F32_UNIT,
      maxSpeed                 |-> 4 * F32_UNIT,
      worldSize                |-> << 800 * F32_UNIT, 600 * F32_UNIT >>,
      neighborRadius           |-> 50 * F32_UNIT,
      gridCellSize             |-> 50 * F32_UNIT,
      gridWidth                |-> 16,
      gridHeight               |-> 12,
      maxAgentsPerCell         |-> 128,
      edgeAvoidanceDistance    |-> 55 * F32_UNIT,
      edgeAvoidanceForce       |-> 5 * (F32_UNIT \div 2),
      momentumSmoothing        |-> smoothing,
      momentumDamping          |-> damping,
      collisionRadius          |-> radius * F32_UNIT,
      collisionForceMultiplier |-> 7 * F32_UNIT,
      collisionScaling         |-> scaling * F32_UNIT ] :
      n \in LayoutAgentCounts, smoothing \in LayoutFractions,
      damping \in LayoutFractions, radius \in {8, 10}, scaling \in {1, 2} }

\* updateUniforms(device, buffer, params, deltaTime) on one record
UniformsProbe(p, dt) ==
  /\ probe' = [ kind      |-> "uniforms",
                params    |-> p,
                deltaTime |-> dt,
                buffer    |-> PackUniforms(p, dt) ]
  /\ UNCHANGED << pipeline, fps, boot >>

LayoutInit == createBufferSet(worldParams, TwoAbreast) /\ PageLoaded

LayoutNext == \E p \in LayoutParams, dt \in LayoutDeltaTimes : UniformsProbe(p, dt)

LayoutSpec == LayoutInit /\ [][LayoutNext]_vars

\* the members of a kernel's SimParams whose words in the buffer are not the
\* configured value
Misplaced(struct) ==
  { i \in DOMAIN struct :
      KernelRead(struct, probe.buffer, i)
        # Configured(probe.params, probe.deltaTime, struct[i]) }

\* C31: every member of the SimParams struct a kernel reads, from agentCount
\* at offset 0 up to and including maxNeighbors, is found at its byte offset
\* in the buffer updateUniforms wrote, with the configured value in the
\* member's type, and none is zero padding
UniformsFollowKernelLayout ==
  probe.kind = "uniforms" =>
    /\ Misplaced(ForceSimParams) = {}
    /\ Misplaced(CappedSimParams) = {}

(***************************************************************************)
(* The counters after the populate pass.                                   *)
(***************************************************************************)
\* every invocation of the populate kernel has returned and the compute
\* pass has not begun: popCell still holds each invocation's cellIdx
POPULATED == POPULATING /\ AllDone(popPc)

RECURSIVE CounterSum(_)
\* gridIndices[0] + ... + gridIndices[n - 1]
CounterSum(n) == IF n = 0 THEN 0 ELSE CounterSum(n - 1) + gridIndices[n - 1]

\* every agent's position gives one cell (no coordinate is NaN)
HomesKnown == \A a \in Agents : Cardinality(HomeCells(a)) = 1

\* C32: after the populate pass gridIndices[c] is the number of agents whose
\* home cell is c, the dropped ones included: the counters sum to
\* agentCount, and a cell has agents that are in none of its slots exactly
\* when its counter is greater than maxAgentsPerCell.  Stated with the cell
\* each invocation computed when the pass ends, and with the cell of each
\* position while the force kernel reads the counters.
CountersCountHomeAgents ==
  /\ POPULATED =>
       /\ \A a \in Agents : popCell[a] \in HomeCells(a)
       /\ \A c \in Cells :
            /\ gridIndices[c] = Cardinality({ a \in Agents : popCell[a] = c })
            /\ Overflowed(c) <=> \E a \in Agents : popCell[a] = c /\ a \notin Stored(c)
  /\ (POPULATED \/ EVALUATING) => CounterSum(cellCount) = params.agentCount
  /\ (EVALUATING /\ HomesKnown) =>
       \A c \in Cells :
         /\ gridIndices[c] = Cardinality({ a \in Agents : HomeCells(a) = {c} })
         /\ Overflowed(c) <=> \E a \in Agents : HomeCells(a) = {c} /\ a \notin Stored(c)

\* C32, witness: the force kernel runs on a grid in which one cell was given
\* more agents than it has slots and the counter holds all of them
DroppedAgentsCounted ==
  /\ EVALUATING
  /\ HomesKnown
  /\ \E idx \in Agents : evalPc[idx] = "done"
  /\ \E c \in Cells :
       /\ gridIndices[c] = params.maxAgentsPerCell + 1
       /\ Cardinality({ a \in Agents : HomeCells(a) = {c} }) = params.maxAgentsPerCell + 1
       /\ Cardinality(Stored(c)) = params.maxAgentsPerCell

(***************************************************************************)
(* createBufferSet with the buffers' contents: the Float32Array of         *)
(* initializeAgents (8 floats per agent) written to both agent buffers,    *)
(* and the two grid arrays.                                                *)
(***************************************************************************)
\* Math.random() in units of 1 / RANDOM_UNIT.  RANDOM_UNIT itself stands for
\* the largest double below 1: its products are rounded to the whole factor
\* when the Float32Array stores them.
RANDOM_UNIT == 4
Randoms == {0, 2, 4}

\* Math.random() * x
RandomTimes(r, x) == (r * x) \div RANDOM_UNIT

\* a velocity component that is not centred on 0
InitialVelocityUncentred(r, maxSpeed) == RandomTimes(r, maxSpeed)

\* (Math.random() - 0.5) * params.maxSpeed
InitialVelocity(r, maxSpeed) == RandomTimes(r - RANDOM_UNIT \div 2, maxSpeed)

\* initializeAgents(params): agentData, with random[k] the k-th result of
\* Math.random()
initializeAgentData(p, random) ==
  [ k \in 1 .. (p.agentCount * 8) |->
      LET i      == (k - 1) \div 8
          offset == (k - 1) % 8
      IN  CASE offset = 0 -> RandomTimes(random[4 * i + 1], p.worldSize[1])
            [] offset = 1 -> RandomTimes(random[4 * i + 2], p.worldSize[2])
            [] offset = 2 -> InitialVelocity(random[4 * i + 3], p.maxSpeed)
            [] offset = 3 -> InitialVelocity(random[4 * i + 4], p.maxSpeed)
            [] OTHER      -> 0 ]

\* createBufferSet(device, inputParams): the contents of the buffers of the
\* BufferSet it returns
createBufferSetContents(inputParams, random) ==
  LET gridConfig       == calculateGridConfig(inputParams.worldSize,
                                              inputParams.neighborRadius)
      p                == bufferSetParams(inputParams)
      initialAgentData == initializeAgentData(p, random)
      cells            == gridConfig.gridWidth * gridConfig.gridHeight
  IN  [ agentBuffers      |-> << initialAgentData, initialAgentData >>,
        gridBuffer        |-> [ s \in 0 .. (cells * gridConfig.maxAgentsPerCell - 1) |->
                                  EMPTY_CELL_MARKER ],
        gridIndicesBuffer |-> [ c \in 0 .. (cells - 1) |-> 0 ],
        params            |-> p ]

\* the records createBufferSet is given: one or two agents in the world of
\* the scenario or of the small canvas
BufferSetInputs ==
  { [base EXCEPT !.agentCount = n] :
      base \in {scenarioParams, simulationParams}, n \in {1, 2} }

\* createBufferSet on a page that has no buffer set yet
CreateBufferSetProbe(inputParams, random) ==
  /\ probe = NoProbe
  /\ probe' = [ kind      |-> "bufferSet",
                random    |-> random,
                bufferSet |-> createBufferSetContents(inputParams, random) ]
  /\ UNCHANGED << pipeline, fps, boot >>

BufferSetInit == createBufferSet(worldParams, TwoAbreast) /\ PageLoaded

BufferSetNext ==
  \E inputParams \in BufferSetInputs :
    \E random \in [1 .. (4 * inputParams.agentCount) -> Randoms] :
      CreateBufferSetProbe(inputParams, random)

BufferSetSpec == BufferSetInit /\ [][BufferSetNext]_vars

\* float `offset` of the record of agent i in an agent buffer
AgentFloat(buffer, i, offset) == buffer[8 * i + offset + 1]

\* C33: right after createBufferSet both agent buffers hold the same
\* records, every position lies in [0, worldWidth] x [0, worldHeight], every
\* speed is at most maxSpeed, previousAcceleration and the two padding
\* floats (the flag word) are 0, every grid counter is 0 and every grid slot
\* holds EMPTY_CELL_MARKER.
InitialStateValid ==
  probe.kind = "bufferSet" =>
    LET b    == probe.bufferSet
        p    == b.params
        data == b.agentBuffers[1]
    IN  /\ b.agentBuffers[2] = data
        /\ Len(data) = 8 * p.agentCount
        /\ \A i \in 0 .. (p.agentCount - 1) :
             /\ AgentFloat(data, i, 0) >= 0
             /\ AgentFloat(data, i, 0) <= p.worldSize[1]
             /\ AgentFloat(data, i, 1) >= 0
             /\ AgentFloat(data, i, 1) <= p.worldSize[2]
             /\ AgentFloat(data, i, 2) * AgentFloat(data, i, 2)
                  + AgentFloat(data, i, 3) * AgentFloat(data, i, 3)
                  <= p.maxSpeed * p.maxSpeed
             /\ \A offset \in 4 .. 7 : AgentFloat(data, i, offset) = 0
        /\ DOMAIN b.gridIndicesBuffer = 0 .. (p.gridWidth * p.gridHeight - 1)
        /\ \A c \in DOMAIN b.gridIndicesBuffer : b.gridIndicesBuffer[c] = 0
        /\ DOMAIN b.gridBuffer = 0 .. (p.gridWidth * p.gridHeight * p.maxAgentsPerCell - 1)
        /\ \A s \in DOMAIN b.gridBuffer : b.gridBuffer[s] = EMPTY_CELL_MARKER

\* C33, witness: a buffer set of two agents, one on the far corner of the
\* world with the largest velocity on both axes
CornerAgentCreated ==
  /\ probe.kind = "bufferSet"
  /\ probe.bufferSet.params.agentCount = 2
  /\ LET data == probe.bufferSet.agentBuffers[2]
         p    == probe.bufferSet.params
     IN  /\ AgentFloat(data, 1, 0) = p.worldSize[1]
         /\ AgentFloat(data, 1, 1) = p.worldSize[2]
         /\ AgentFloat(data, 1, 2) * 2 = p.maxSpeed
         /\ AgentFloat(data, 1, 3) * 2 = p.maxSpeed

(***************************************************************************)
(* The capped kernel's loop body with the collision flag, on positions in  *)
(* units of 1 / POSITION_UNIT so that distances below 1.0 exist.           *)
(***************************************************************************)
POSITION_UNIT == 4

\* a test that lets every pair pass, coincident agents included
DistinctPositionsAlways(distSq) == TRUE

\* distSq > 0.0
DistinctPositions(distSq) == FGreater(distSq, 0)

\* sqrt(distSq) < m for m >= 0, decided on the squares
SqrtLess(distSq, m) == FLess(distSq, m * m)

\* max(1.0, pow(collisionRadius / dist, collisionScaling)) in units of
\* 1 / ONE, for the exponents 1 and 2
ForceScale(p, distSq) ==
  LET power == IF p.collisionScaling = 2
               THEN FDiv(p.collisionRadius * p.collisionRadius * ONE, distSq)
               ELSE LET sq == FDiv(p.collisionRadius * p.collisionRadius * ONE * ONE, distSq)
                    IN  IF IsNaN(sq) THEN NaN ELSE ISqrt(sq)
  IN  IF IsNaN(power) THEN NaN ELSE IF power > ONE THEN power ELSE ONE

CollisionZeroSums ==
  [ separation |-> ZeroVec, alignment |-> ZeroVec, cohesion |-> ZeroVec,
    separationCount |-> 0, alignmentCount |-> 0, cohesionCount |-> 0,
    isColliding |-> FALSE ]

\* one pass of the loop body from `let other = agentsIn[neighborIdx]` on
CollisionAccumulate(sums, p, agent, other) ==
  LET diff   == VSub(agent.position, other.position)
      distSq == Dot(diff, diff)
      s1 == IF WithinRadius(distSq, p.separationRadius) /\ DistinctPositions(distSq)
            THEN [sums EXCEPT
                    !.separation = VAdd(@, NormalizeTimes(diff, ForceScale(p, distSq))),
                    !.separationCount = @ + 1,
                    !.isColliding = @ \/ SqrtLess(distSq, 1 * POSITION_UNIT)]
            ELSE sums
      s2 == IF WithinRadius(distSq, p.alignmentRadius)
            THEN [s1 EXCEPT !.alignment = VAdd(@, other.velocity),
                            !.alignmentCount = @ + 1]
            ELSE s1
  IN  IF WithinRadius(distSq, p.cohesionRadius)
      THEN [s2 EXCEPT !.cohesion = VAdd(@, other.position),
                      !.cohesionCount = @ + 1]
      ELSE s2

RECURSIVE CollisionLoop(_, _, _, _, _)
\* the loop body on the processed neighbors from the k-th on
CollisionLoop(sums, p, agent, others, k) ==
  IF k > Len(others) THEN sums
  ELSE CollisionLoop(CollisionAccumulate(sums, p, agent, others[k]), p, agent, others,
                     k + 1)

\* agentsOut[idx].padding = vec2<f32>(select(0.0, 1.0, isColliding), 0.0)
CollisionPadding(isColliding) == Vec(IF isColliding THEN 1 ELSE 0, 0)

\* the agent of the invocation, with the flag the last frame left in its
\* padding
CollisionAgent(flag) ==
  [ position |-> Vec(100 * POSITION_UNIT, 100 * POSITION_UNIT),
    velocity |-> Vec(1, 0),
    padding  |-> Vec(flag, 0) ]

\* a neighbor at distance d / POSITION_UNIT on the x axis or, for the odd
\* ones, on the y axis
CollisionOther(d) ==
  [ position |-> IF d % 2 = 0
                 THEN Vec(100 * POSITION_UNIT + d, 100 * POSITION_UNIT)
                 ELSE Vec(100 * POSITION_UNIT, 100 * POSITION_UNIT - d),
    velocity |-> Vec(d % 3, 1),
    padding  |-> Vec(1, 0) ]

\* distances 0, 0.25, 0.75, 1.0, 6.0 and 50.0
CollisionDistances == {0, 1, 3, 1 * POSITION_UNIT, 6 * POSITION_UNIT, 50 * POSITION_UNIT}

\* the processed neighbors: none, one or two
CollisionNeighbors ==
  { << >> } \cup { << CollisionOther(d) >> : d \in CollisionDistances }
    \cup { << CollisionOther(d), CollisionOther(e) >> :
             d \in CollisionDistances, e \in CollisionDistances }

\* the radii of the kernel: separationRadius at its lower limit 1.0 and at
\* its default 20.0
CollisionParams ==
  { [ separationRadius |-> r * POSITION_UNIT,
      alignmentRadius  |-> 40 * POSITION_UNIT,
      cohesionRadius   |-> 40 * POSITION_UNIT,
      collisionRadius  |-> 2 * POSITION_UNIT,
      collisionScaling |-> scaling ] : r \in {1, 20}, scaling \in {1, 2} }

\* the loop body of the capped kernel on the processed neighbors of one
\* agent, and the padding it writes
CollisionProbe(p, flag, others) ==
  /\ LET agent == CollisionAgent(flag)
         sums  == CollisionLoop(CollisionZeroSums, p, agent, others, 1)
     IN  probe' = [ kind    |-> "collision",
                    params  |-> p,
                    agent   |-> agent,
                    others  |-> others,
                    sums    |-> sums,
                    padding |-> CollisionPadding(sums.isColliding) ]
  /\ UNCHANGED << pipeline, fps, boot >>

CollisionInit == createBufferSet(worldParams, TwoAbreast) /\ PageLoaded

CollisionNext ==
  \E p \in CollisionParams, flag \in {0, 1}, others \in CollisionNeighbors :
    CollisionProbe(p, flag, others)

CollisionSpec == CollisionInit /\ [][CollisionNext]_vars

\* the processed neighbors that are not at the agent's position
Apart(agent, others) ==
  LET NotCoincident(other) == other.position # agent.position
  IN  SelectSeq(others, NotCoincident)

MaxFrameTicks == 62

\* FPSConfig records: bufferSize below, at and above the typical 60
FPSConfigs == { [bufferSize |-> n, updateInterval |-> 1000] : n \in {2, 30, 60, 120} }

\* the milliseconds between two frames: the first frames vary, the later
\* ones are 16 apart
FrameIntervals(n) == IF n < 2 THEN {16, 33} ELSE {16}

\* createInitialFPSState(config)
CreateFPSProbe(config) ==
  /\ probe = NoProbe
  /\ probe' = [ kind    |-> "frameTimes",
                config  |-> config,
                state   |-> createInitialFPSState,
                history |-> << >> ]
  /\ UNCHANGED << pipeline, fps, boot >>

\* updateFrameTime(state, currentTime) in the frame callback
FrameTickProbe ==
  /\ probe.kind = "frameTimes"
  /\ Len(probe.history) < MaxFrameTicks
  /\ \E interval \in FrameIntervals(Len(probe.history)) :
       LET currentTime ==
             IF probe.history = << >> THEN interval
             ELSE probe.history[Len(probe.history)] + interval
       IN  probe' = [probe EXCEPT !.state = updateFrameTime(probe.state, currentTime),
                                  !.history = Append(probe.history, currentTime)]
  /\ UNCHANGED << pipeline, fps, boot >>

FrameTimeInit == createBufferSet(worldParams, TwoAbreast) /\ PageLoaded

FrameTimeNext ==
  \/ \E config \in FPSConfigs : CreateFPSProbe(config)
  \/ FrameTickProbe

FrameTimeSpec == FrameTimeInit /\ [][FrameTimeNext]_vars

\* the last n elements of a sequence
LastOf(seq, n) == SubSeq(seq, Len(seq) - U32Min(Len(seq), n) + 1, Len(seq))

\* C35: after any sequence of updateFrameTime calls frameTimes holds the
\* most recent timestamps in arrival order, and never more than
\* config.bufferSize of them
FrameTimesWithinBufferSize ==
  probe.kind = "frameTimes" =>
    /\ Len(probe.state.frameTimes) <= probe.config.bufferSize
    /\ probe.state.frameTimes = LastOf(probe.history, Len(probe.state.frameTimes))

(***************************************************************************)
(* The performance monitor: createPerformanceMonitor and                   *)
(* addPerformanceSample.                                                   *)
(***************************************************************************)
\* the samples added in a run
MaxSamples == 4

\* Array.prototype.slice(start) with an integer start: a negative start
\* counts from the end, and -0 is 0, the start of the array
Slice(array, start) ==
  LET len  == Len(array)
      from == IF start < 0
              THEN (IF len + start > 0 THEN len + start ELSE 0)
              ELSE (IF start < len THEN start ELSE len)
  IN  SubSeq(array, from + 1, len)

\* createPerformanceMonitor(windowSize), with performance.now() = now
createPerformanceMonitor(windowSize, now) ==
  [samples |-> << >>, windowSize |-> windowSize, lastUpdateTime |-> now]

\* addPerformanceSample(monitor, timestamp)
addPerformanceSample(monitor, timestamp) ==
  LET frameTime      == timestamp - monitor.lastUpdateTime
      newSample      == [timestamp |-> timestamp, frameTime |-> frameTime]
      updatedSamples == Slice(Append(monitor.samples, newSample), 0 - monitor.windowSize)
  IN  [monitor EXCEPT !.samples = updatedSamples, !.lastUpdateTime = timestamp]

WindowSizes == 0 .. 3

CreateMonitorProbe(windowSize, now) ==
  /\ probe = NoProbe
  /\ probe' = [ kind    |-> "monitor",
                monitor |-> createPerformanceMonitor(windowSize, now),
                calls   |-> << >> ]
  /\ UNCHANGED << pipeline, fps, boot >>

\* addPerformanceSample with a timestamp 16 or 33 ms after the last one
AddSampleProbe(interval) ==
  /\ probe.kind = "monitor"
  /\ Len(probe.calls) < MaxSamples
  /\ LET timestamp == probe.monitor.lastUpdateTime + interval
     IN  probe' = [probe EXCEPT !.monitor = addPerformanceSample(probe.monitor, timestamp),
                                !.calls = Append(probe.calls, timestamp)]
  /\ UNCHANGED << pipeline, fps, boot >>

MonitorInit == createBufferSet(worldParams, TwoAbreast) /\ PageLoaded

MonitorNext ==
  \/ \E windowSize \in WindowSizes, now \in {0, 5} : CreateMonitorProbe(windowSize, now)
  \/ \E interval \in {16, 33} : AddSampleProbe(interval)

MonitorSpec == MonitorInit /\ [][MonitorNext]_vars

\* C36: after any sequence of addPerformanceSample calls on a monitor created
\* with a windowSize >= 0, samples holds at most windowSize entries, the
\* most recent ones in order, and lastUpdateTime is the timestamp of the
\* last call
SamplesWithinWindow ==
  probe.kind = "monitor" =>
    LET monitor == probe.monitor
        kept    == Len(monitor.samples)
    IN  /\ kept <= monitor.windowSize
        /\ [ k \in 1 .. kept |-> monitor.samples[k].timestamp ] = LastOf(probe.calls, kept)
        /\ probe.calls # << >> => monitor.lastUpdateTime = probe.calls[Len(probe.calls)]

(***************************************************************************)
(* The static file server.  A path is the sequence of its segments; its    *)
(* text is the sequence of the pieces of the string, cut so that one text  *)
(* starts with another exactly when the strings do.                        *)
(***************************************************************************)
\* the segments of a request URL
MaxSegments == 3

\* join(import.meta.dirname, "client", "dist")
STATIC_DIR == << "app", "client", "dist" >>

\* the files on the disk: two under client/dist, one in a directory next to
\* it whose name begins with "dist", one above
Files ==
  { << "app", "client", "dist", "index.html" >>,
    << "app", "client", "dist", "main.js" >>,
    << "app", "client", "dist-old", "secret.txt" >>,
    << "app", "secret.txt" >> }

\* the pieces of the text of one segment
Pieces(segment) == IF segment = "dist-old" THEN << "dist", "-old" >> ELSE << segment >>

RECURSIVE Text(_)
\* the string of an absolute path
Text(path) ==
  IF path = << >> THEN << >>
  ELSE Text(SubSeq(path, 1, Len(path) - 1)) \o << "/" >> \o Pieces(path[Len(path)])

RECURSIVE Normalize(_, _, _)
\* path.join: the segments of `rest` from the k-th on applied to `path`,
\* ".." leaving the last directory (the root has none to leave)
Normalize(path, rest, k) ==
  IF k > Len(rest) THEN path
  ELSE IF rest[k] = ".."
    THEN Normalize(SubSeq(path, 1, IF Len(path) = 0 THEN 0 ELSE Len(path) - 1), rest, k + 1)
  ELSE Normalize(Append(path, rest[k]), rest, k + 1)

\* join(STATIC_DIR, safePath)
Join(dir, safePath) == Normalize(dir, safePath, 1)

\* a test on whole segments: the path is the directory or lies below it
StartsWithDirectory(path, dir) ==
  Len(path) >= Len(dir) /\ SubSeq(path, 1, Len(dir)) = dir

\* filePath.startsWith(STATIC_DIR): a test on the strings
StartsWith(path, dir) ==
  LET text   == Text(path)
      prefix == Text(dir)
  IN  Len(text) >= Len(prefix) /\ SubSeq(text, 1, Len(prefix)) = prefix

\* serveFile(filePath): the content read, or an Error
serveFile(filePath) ==
  IF filePath \in Files THEN [content |-> filePath] ELSE Error("File not found")

\* the request handler of createServer: the response to req.url
HandleRequest(url) ==
  LET safePath == IF url = << >> THEN << "index.html" >> ELSE url
      filePath == Join(STATIC_DIR, safePath)
  IN  IF ~StartsWith(filePath, STATIC_DIR)
      THEN [status |-> 403, body |-> "Forbidden", filePath |-> filePath]
      ELSE LET result == serveFile(filePath)
           IN  IF IsError(result)
               THEN [status |-> 404, body |-> "Not Found", filePath |-> filePath]
               ELSE [status |-> 200, body |-> result.content, filePath |-> filePath]

\* the segments a request can name
UrlSegments == {"..", "index.html", "main.js", "missing.js", "dist-old", "secret.txt", "client"}

\* req.url: "/" (no segment) or up to MaxSegments segments
Urls == UNION { [1 .. n -> UrlSegments] : n \in 0 .. MaxSegments }

\* one request
RequestProbe(url) ==
  /\ probe' = [kind |-> "request", url |-> url, response |-> HandleRequest(url)]
  /\ UNCHANGED << pipeline, fps, boot >>

ServerInit == createBufferSet(worldParams, TwoAbreast) /\ PageLoaded

ServerNext == \E url \in Urls : RequestProbe(url)

ServerSpec == ServerInit /\ [][ServerNext]_vars

\* C37: the server never returns the content of a file whose resolved path
\* is outside client/dist, and answers such a request 403; a request for
\* "/" is served index.html; a request for a missing file under client/dist
\* is answered 404
ServedInsideStaticDir ==
  probe.kind = "request" =>
    LET response == probe.response
        inside   == StartsWithDirectory(response.filePath, STATIC_DIR)
    IN  /\ response.status = 200 => inside
        /\ ~inside => response.status = 403
        /\ probe.url = << >> =>
             response.status = 200 /\ response.body = Append(STATIC_DIR, "index.html")
        /\ (inside /\ response.filePath \notin Files) => response.status = 404

(***************************************************************************)
(* A slider group of the control panel: the slider's input listeners       *)
(* handleChange and updateDisplay, which run in the order they were added. *)
(***************************************************************************)
\* the inputs of a run
MaxInputs == 4

\* value.toString() and parseFloat(text) of the numbers a slider holds
toString(value) == [text |-> value]
parseFloat(string) == string.text

\* the separationRadius slider of createDefaultSliderConfigs
SliderConfig ==
  [id |-> "separationRadius", label |-> "Separation Radius", value |-> 20, unit |-> "px"]

\* createSliderGroup(config, changeHandler): the slider, the label and the
\* value display; accepted is the last value the change handler accepted
\* (at first the configured one)
createSliderGroup(config) ==
  [ kind         |-> "slider",
    config       |-> config,
    slider       |-> toString(config.value),
    label        |-> [label |-> config.label, value |-> config.value, unit |-> config.unit],
    valueDisplay |-> [value |-> config.value, unit |-> config.unit],
    accepted     |-> config.value,
    before       |-> config.value,
    rejected     |-> FALSE,
    inputs       |-> 0 ]

\* handleChange(event), with `result` what changeHandler returns: the text
\* the slider holds afterwards
handleChange(group, result) ==
  LET numericValue == parseFloat(group.slider)
  IN  IF IsNaN(numericValue) THEN group.slider
      ELSE IF IsError(result) THEN toString(group.config.value)
      ELSE group.slider

\* updateDisplay()
updateDisplay(group) ==
  LET currentValue == parseFloat(group.slider)
  IN  IF IsNaN(currentValue) THEN group
      ELSE [group EXCEPT !.valueDisplay.value = currentValue,
                         !.label.value = currentValue]

\* the values the user can set the slider to
SliderInputs == {10, 30, 50, 70, 90}

\* what the change handler can return
HandlerResults == {[success |-> TRUE], Error("Parameter update failed")}

CreateSliderProbe ==
  /\ probe = NoProbe
  /\ probe' = createSliderGroup(SliderConfig)
  /\ UNCHANGED << pipeline, fps, boot >>

\* an input event: the user has set the slider to `value`, then
\* handleChange and updateDisplay run
SliderInputProbe(value, result) ==
  /\ probe.kind = "slider"
  /\ probe.inputs < MaxInputs
  /\ LET moved   == [probe EXCEPT !.slider = toString(value)]
         handled == [moved EXCEPT !.slider = handleChange(moved, result)]
         shown   == updateDisplay(handled)
     IN  probe' = [shown EXCEPT !.before = probe.accepted,
                                !.accepted = IF IsError(result) THEN probe.accepted
                                             ELSE value,
                                !.rejected = IsError(result),
                                !.inputs = probe.inputs + 1]
  /\ UNCHANGED << pipeline, fps, boot >>

SliderInit == createBufferSet(worldParams, TwoAbreast) /\ PageLoaded

SliderNext ==
  \/ CreateSliderProbe
  \/ \E value \in SliderInputs, result \in HandlerResults : SliderInputProbe(value, result)

SliderSpec == SliderInit /\ [][SliderNext]_vars

\* C38: when the change handler returns an Error for an input, the slider
\* holds afterwards the last value accepted before that input, after any
\* sequence of earlier accepted and rejected inputs, and the label and the
\* value display show that value
SliderResetToLastAccepted ==
  (probe.kind = "slider" /\ probe.rejected) =>
    /\ parseFloat(probe.slider) = probe.before
    /\ probe.label.value = probe.before
    /\ probe.valueDisplay.value = probe.before
====
